---- MODULE Spec2Model ----
(***************************************************************************)
(* Compose discovery of docker-tea: the project lister                     *)
(* (Service.ListComposeProjects) and the two container matchers            *)
(* (Service.ListComposeContainers, views.FetchComposeContainers).          *)
(*                                                                         *)
(* A Go string is a sequence of one-character strings, so that the         *)
(* strings package calls of the code (Contains, Split, Fields, ToLower,    *)
(* ReplaceAll, HasPrefix, EqualFold, Trim) are computed, not assumed.      *)
(***************************************************************************)
EXTENDS Integers, Sequences, FiniteSets, Bags, TLC

VARIABLES
    pc,              \* position of the running operation
    ctx,             \* the caller's context: "live" or "expired"
    calledExpired,   \* the context was already expired when the operation was called
    proc,            \* the subprocess the operation is blocked on, or "none"
    err,             \* the error the operation returned, or "none"
    op,              \* the operation called: "projects", "list", "fetch"; "none" before
    \* ---- ListComposeProjects
    fsFiles,         \* what `find` and the per-directory `config` report
    pathEnv,         \* what the per-project `config` and `ls -a` report
    lsOutcome,       \* how `docker compose ls --format json` ended
    listed,          \* `projects` as parsed from the tool's output (line 898)
    projects,        \* local `projects`
    configProjects,  \* local `configProjects`
    uniqueProjects,  \* local `uniqueProjects`, the value returned
    \* ---- ListComposeContainers / FetchComposeContainers
    runtime,         \* the containers the Docker daemon knows
    projectName,     \* the argument of the call
    containers,      \* local `containers` / `composeContainers`, the value returned
    psOutcome,       \* what the last `ps` command that exited printed
    trace,           \* the strategies executed so far, each with the number it returned
    \* ---- ListComposeServices
    projectPath,     \* the argument: the path, what is there and whether it can be read
    composeContent,  \* the declaration the file holds
    composePath,     \* local `composePath`
    services,        \* local `services`, the value returned
    svcTrace,        \* the steps executed so far, each with its services (the tool: with its output)
    \* ---- views.ComposeInspect
    declaration,     \* what the file at the selected path declares
    composeFileContent,  \* local `composeFileContent`
    composeServices,     \* the argument `composeServices`
    serviceEntries,      \* local `serviceEntries`
    tmpComposeServices,  \* local `tmpComposeServices`
    \* ---- ui.FullModel under the Bubble Tea runtime
    m,               \* the FullModel the program holds
    inflight,        \* the commands the runtime is running (a bag)
    handled,         \* the message Update handled last, with the view it found
    issued,          \* the commands that Update returned
    awaited,         \* the compose messages an Inspect key press has yet to bring
    origin           \* the view a kill or remove was asked from in inspect mode

commonVars == <<pc, ctx, calledExpired, proc, err, op>>
projVars == <<fsFiles, pathEnv, lsOutcome, listed, projects, configProjects, uniqueProjects>>
contVars == <<runtime, projectName, containers, psOutcome, trace>>
svcVars == <<projectPath, composeContent, composePath, services, svcTrace>>
inspVars == <<declaration, composeFileContent, composeServices, serviceEntries, tmpComposeServices>>
uiVars == <<m, inflight, handled, issued, awaited, origin>>
vars == <<pc, ctx, calledExpired, proc, err, op, fsFiles, pathEnv, lsOutcome, listed,
          projects, configProjects, uniqueProjects, runtime, projectName, containers, psOutcome, trace,
          projectPath, composeContent, composePath, services, svcTrace,
          declaration, composeFileContent, composeServices, serviceEntries, tmpComposeServices,
          m, inflight, handled, issued, awaited, origin>>

(***************************************************************************)
(* Bounds of the model.                                                    *)
(***************************************************************************)
MaxRecs == 2        \* elements of a JSON array printed by the tool
MaxLines == 2       \* lines of a text output of the tool
MaxFs == 2          \* declaration files found by the filesystem scan
MaxContainers == 2  \* containers known to the runtime
MaxSvcs == 2        \* services a declaration declares

(***************************************************************************)
(* The strings package.                                                    *)
(***************************************************************************)
Empty == <<>>

HasPrefix(s, p) == Len(p) <= Len(s) /\ SubSeq(s, 1, Len(p)) = p

\* strings.Index: the offset of the first occurrence of sub in s, -1 if none
Index(s, sub) ==
    LET at == {i \in 0..(Len(s) - Len(sub)) : SubSeq(s, i + 1, i + Len(sub)) = sub}
    IN  IF at = {} THEN -1 ELSE CHOOSE i \in at : \A j \in at : i <= j

Contains(s, sub) == Index(s, sub) >= 0

Lower(c) ==
    CASE c = "A" -> "a" [] c = "B" -> "b" [] c = "C" -> "c" [] c = "D" -> "d"
      [] c = "E" -> "e" [] c = "F" -> "f" [] c = "G" -> "g" [] c = "H" -> "h"
      [] c = "I" -> "i" [] c = "J" -> "j" [] c = "K" -> "k" [] c = "L" -> "l"
      [] c = "M" -> "m" [] c = "N" -> "n" [] c = "O" -> "o" [] c = "P" -> "p"
      [] c = "Q" -> "q" [] c = "R" -> "r" [] c = "S" -> "s" [] c = "T" -> "t"
      [] c = "U" -> "u" [] c = "V" -> "v" [] c = "W" -> "w" [] c = "X" -> "x"
      [] c = "Y" -> "y" [] c = "Z" -> "z"
      [] OTHER -> c

ToLower(s) == [i \in 1..Len(s) |-> Lower(s[i])]

EqualFold(a, b) == ToLower(a) = ToLower(b)

\* strings.Split for a non-empty separator
RECURSIVE Split(_, _)
Split(s, sep) ==
    LET i == Index(s, sep)
    IN  IF i < 0 THEN <<s>>
        ELSE <<SubSeq(s, 1, i)>> \o Split(SubSeq(s, i + Len(sep) + 1, Len(s)), sep)

RECURSIVE Join(_, _)
Join(parts, sep) ==
    IF parts = <<>> THEN <<>>
    ELSE IF Len(parts) = 1 THEN parts[1]
    ELSE parts[1] \o sep \o Join(Tail(parts), sep)

\* strings.ReplaceAll for a non-empty old
ReplaceAll(s, old, new) == Join(Split(s, old), new)

IsSpace(c) == c \in {" ", "\t", "\n", "\r"}

\* strings.Fields: the maximal runs of non-space characters
RECURSIVE FieldsFrom(_, _)
FieldsFrom(s, cur) ==
    IF s = <<>> THEN (IF cur = <<>> THEN <<>> ELSE <<cur>>)
    ELSE IF IsSpace(Head(s))
         THEN (IF cur = <<>> THEN <<>> ELSE <<cur>>) \o FieldsFrom(Tail(s), <<>>)
         ELSE FieldsFrom(Tail(s), Append(cur, Head(s)))

Fields(s) == FieldsFrom(s, <<>>)

RECURSIVE TrimLeft(_, _)
TrimLeft(s, cutset) ==
    IF s # <<>> /\ Head(s) \in cutset THEN TrimLeft(Tail(s), cutset) ELSE s

RECURSIVE TrimRight(_, _)
TrimRight(s, cutset) ==
    IF s # <<>> /\ s[Len(s)] \in cutset
    THEN TrimRight(SubSeq(s, 1, Len(s) - 1), cutset) ELSE s

\* strings.Trim
Trim(s, cutset) == TrimRight(TrimLeft(s, cutset), cutset)

TrimSpace(s) == Trim(s, {" ", "\t", "\n", "\r"})

\* all sequences over S of length at most n
SeqsUpTo(S, n) == UNION {[1..k -> S] : k \in 0..n}

\* the elements of a sequence
Range(s) == {s[i] : i \in 1..Len(s)}

NL == <<"\n">>

(***************************************************************************)
(* ListComposeProjects: the data it reads.                                 *)
(***************************************************************************)
nA == <<"a">>
nAB == <<"a", "b">>
pX == <<"/", "x">>
pY == <<"/", "y">>
Dot == <<".">>
Unknown == <<"u", "n", "k", "n", "o", "w", "n">>
Running == <<"r", "u", "n", "n", "i", "n", "g">>

\* ComposeInfo, without Services and ConfigFiles, which no code of the lister reads
ComposeInfo(name, path, status) == [Name |-> name, Path |-> path, Status |-> status]

\* the objects the tool may print in JSON (a missing key decodes to "")
JsonRecs ==
    { ComposeInfo(nA, Empty, Running), ComposeInfo(nA, pX, Running),
      ComposeInfo(nAB, Empty, Running), ComposeInfo(Empty, pY, Running) }

\* the text of one JSON object, as the tool prints it
JsonText(r) ==
    <<"{", "\"", "n", "a", "m", "e", "\"", ":", "\"">> \o r.Name
    \o <<"\"", ",", "\"", "p", "a", "t", "h", "\"", ":", "\"">> \o r.Path
    \o <<"\"", "}">>

lineHeader == <<"N", "A", "M", "E", " ", "S", "T", "A", "T", "U", "S", " ", "C", "O", "N", "F", "I", "G">>
lineRow3 == <<"a", " ", "r", "u", "n", "n", "i", "n", "g", " ", "/", "x">>
lineRow2 == <<"a", "b", " ", "e", "x", "i", "t", "e", "d">>
lineRow1 == <<"a">>
lineJson == <<"{", "\"", "n", "a", "m", "e", "\"", ":", "\"", "a", "\"", ",", "\"", "p", "a", "t", "h", "\"", ":", "\"", "\"", ",", "\"", "x", "\"", ":", "1", "}">>
lineJsonNoName == <<"{", "\"", "n", "a", "m", "e", "\"", ":", "\"", "\"", ",", "\"", "p", "a", "t", "h", "\"", ":", "\"", "/", "x", "\"", ",", "\"", "x", "\"", ":", "1", "}">>

TextLines == {lineHeader, lineRow3, lineRow2, lineRow1, lineJson, lineJsonNoName, Empty}
JsonLines == {lineJson, lineJsonNoName}

\* a text that is one JSON object (and blank lines) is a JSON output, not a text
IsOneJsonObject(ls) ==
    LET full == {i \in 1..Len(ls) : TrimSpace(ls[i]) # Empty}
    IN  Cardinality(full) = 1 /\ \A i \in full : ls[i] \in JsonLines

\* what `docker compose ls --format json` may print when it exits with 0
LsOutputs ==
       {[kind |-> "array", recs |-> rs, text |-> Empty] : rs \in SeqsUpTo(JsonRecs, MaxRecs)}
  \cup {[kind |-> "object", recs |-> <<r>>, text |-> JsonText(r)] : r \in JsonRecs}
  \cup {[kind |-> "text", recs |-> <<>>, text |-> Join(ls, NL)] :
            ls \in {l \in SeqsUpTo(TextLines, MaxLines) : ~IsOneJsonObject(l)}}

\* err: "none" (exit 0), "exit" (*exec.ExitError), "start" (the tool could not be run)
LsOutcomes ==
       {[err |-> "none", out |-> o] : o \in LsOutputs}
  \cup {[err |-> e, out |-> [kind |-> "text", recs |-> <<>>, text |-> Empty]] : e \in {"exit", "start"}}

\* one declaration file found by `find`: its directory, and what
\* `docker compose --project-directory dir config --format json` answers
FsFile(dir, ok, hasName, name) == [dir |-> dir, cfgOk |-> ok, hasName |-> hasName, name |-> name]

FsFiles ==
    { FsFile(<<".", "/", "a">>, TRUE, FALSE, Empty),
      FsFile(<<".", "/", "s">>, TRUE, TRUE, nA),
      FsFile(<<".", "/", "e">>, TRUE, TRUE, Empty),
      FsFile(<<".", "/", "f">>, FALSE, FALSE, Empty) }

FsScans == SeqsUpTo(FsFiles, MaxFs)

verboseList == <<"N", "A", "M", "E", " ", "S", "T", "A", "T", "U", "S", " ", "C", "O", "N", "F", "I", "G", "\n",
                 "a", " ", "u", "p", "\n",
                 "a", "b", " ", "r", "u", "n", "n", "i", "n", "g", " ", "/", "v", "\n">>

\* wd: the projects whose `config` prints a working_dir; lsOk, lsText: `ls -a`
PathEnvs ==
    { [wd |-> {}, lsOk |-> FALSE, lsText |-> Empty],
      [wd |-> {<<nA, pX>>}, lsOk |-> FALSE, lsText |-> Empty],
      [wd |-> {<<nAB, Dot>>}, lsOk |-> TRUE, lsText |-> verboseList] }

(***************************************************************************)
(* ListComposeProjects: its helpers.                                       *)
(***************************************************************************)
\* the working_dir of `docker compose --project-name n config`, "" if none
WorkingDir(env, name) ==
    IF \E p \in env.wd : p[1] = name
    THEN (CHOOSE p \in env.wd : p[1] = name)[2]
    ELSE Empty

\* the third column of the first line of `ls -a` that contains the name and
\* has three columns, "" if none
VerbosePath(env, name) ==
    LET lines == Split(env.lsText, NL)
        hits == {i \in 1..Len(lines) :
                    Contains(lines[i], name) /\ Len(Fields(lines[i])) >= 3}
    IN  IF ~env.lsOk \/ hits = {} THEN Empty
        ELSE Fields(lines[CHOOSE i \in hits : \A j \in hits : i <= j])[3]

\* the lookup without its last resort, the current directory
findComposeProjectPathNoDefault(env, name) ==
    IF WorkingDir(env, name) # Empty THEN WorkingDir(env, name)
    ELSE VerbosePath(env, name)

\* lines 940-973
findComposeProjectPath(env, name) ==
    IF WorkingDir(env, name) # Empty THEN WorkingDir(env, name)
    ELSE IF VerbosePath(env, name) # Empty THEN VerbosePath(env, name)
    ELSE Dot

CutSet == {" ", "\t", "\"", ","}
keyName == <<"\"", "n", "a", "m", "e", "\"", ":">>
keyPath == <<"\"", "p", "a", "t", "h", "\"", ":">>
keyStatus == <<"\"", "s", "t", "a", "t", "u", "s", "\"", ":">>

\* the value after a key of a JSON-like line, up to the next comma, trimmed
JsonLikeValue(line, key) == Trim(Split(Split(line, key)[2], <<",">>)[1], CutSet)

\* one line of the manual scan: the projects (none or one) it adds
ManualLine(i, line) ==
    LET parts == Fields(line)
    IN  IF i = 0 /\ (Contains(line, <<"N", "A", "M", "E">>) \/ Contains(line, <<"n", "a", "m", "e">>))
        THEN <<>>
        ELSE IF TrimSpace(line) = Empty THEN <<>>
        ELSE IF ~Contains(line, keyName) /\ Len(parts) >= 2
        THEN <<ComposeInfo(parts[1], IF Len(parts) >= 3 THEN parts[3] ELSE Dot, parts[2])>>
        ELSE IF Contains(line, <<"n", "a", "m", "e">>) /\ Contains(line, <<"p", "a", "t", "h">>)
        THEN IF Len(Split(line, keyName)) < 2 \/ Len(Split(line, keyPath)) < 2 THEN <<>>
             ELSE IF JsonLikeValue(line, keyName) = Empty THEN <<>>
             ELSE <<ComposeInfo(JsonLikeValue(line, keyName), JsonLikeValue(line, keyPath),
                                IF Contains(line, keyStatus)
                                THEN JsonLikeValue(line, keyStatus) ELSE Unknown)>>
        ELSE <<>>

RECURSIVE ManualLines(_, _)
ManualLines(lines, i) ==
    IF i >= Len(lines) THEN <<>>
    ELSE ManualLine(i, lines[i + 1]) \o ManualLines(lines, i + 1)

parseComposeOutputManually(output) == ManualLines(Split(output, NL), 0)

\* lines 876-898: the JSON array, else the single object, else the manual scan
ParseLsOutput(env, out) ==
    IF out.kind = "array" THEN out.recs
    ELSE IF out.kind = "object" /\ out.recs[1].Name # Empty
    THEN <<[out.recs[1] EXCEPT !.Path =
                IF @ = Empty THEN findComposeProjectPath(env, out.recs[1].Name) ELSE @]>>
    ELSE parseComposeOutputManually(out.text)

\* the last component of a directory
DirName(dir) == LET parts == Split(dir, <<"/">>) IN parts[Len(parts)]

RECURSIVE tryExtractProjectsViaConfig(_)
tryExtractProjectsViaConfig(files) ==
    IF files = <<>> THEN <<>>
    ELSE LET f == Head(files)
         IN  (IF ~f.cfgOk THEN <<>>
              ELSE <<ComposeInfo(IF f.hasName THEN f.name ELSE DirName(f.dir), f.dir, Unknown)>>)
             \o tryExtractProjectsViaConfig(Tail(files))

\* the filesystem candidates compared on name and path instead of the name
AlreadyListedByKey(ps, cp) ==
    \E i \in 1..Len(ps) : ps[i].Name = cp.Name /\ ps[i].Path = cp.Path

\* lines 905-911: a project of that name is already in the list
AlreadyListed(ps, cp) == \E i \in 1..Len(ps) : ps[i].Name = cp.Name

RECURSIVE MergeConfigProjects(_, _)
MergeConfigProjects(ps, cps) ==
    IF cps = <<>> THEN ps
    ELSE MergeConfigProjects(IF AlreadyListed(ps, Head(cps)) THEN ps ELSE Append(ps, Head(cps)),
                             Tail(cps))

\* line 923
ProjectKey(p) == p.Name \o <<":">> \o p.Path

\* lines 927-930: a kept project with no path gets the looked-up one
FillPath(env, p) ==
    IF p.Path = Empty THEN [p EXCEPT !.Path = findComposeProjectPath(env, p.Name)] ELSE p

RECURSIVE DedupFrom(_, _, _)
DedupFrom(env, ps, seen) ==
    IF ps = <<>> THEN <<>>
    ELSE IF ProjectKey(Head(ps)) \in seen THEN DedupFrom(env, Tail(ps), seen)
    ELSE <<FillPath(env, Head(ps))>>
         \o DedupFrom(env, Tail(ps), seen \cup {ProjectKey(Head(ps))})

\* lines 918-934
Deduplicate(env, ps) == DedupFrom(env, ps, {})

(***************************************************************************)
(* The caller's context. No line of the discovery code cancels it; the     *)
(* interface layer's deadline or shutdown does.                            *)
(***************************************************************************)
CtxExpire ==
    /\ ctx = "live"
    /\ pc # "done"
    /\ ctx' = "expired"
    /\ UNCHANGED <<pc, calledExpired, proc, err, op>>
    /\ UNCHANGED projVars
    /\ UNCHANGED contVars
    /\ UNCHANGED svcVars
    /\ UNCHANGED inspVars
    /\ UNCHANGED uiVars

NoProjects == [err |-> "none", kind |-> "none", name |-> Empty, first |-> Empty]

NoPs == [kind |-> "none", recs |-> <<>>, first |-> Empty]

(***************************************************************************)
(* ui.FullModel as NewFullModel builds it (internal/ui/fullmodel.go).      *)
(***************************************************************************)
ContainersTab == 0
ImagesTab == 1
VolumesTab == 2
NetworksTab == 3
ComposeTab == 4
LogsTab == 5

ListMode == "ListMode"
InspectMode == "InspectMode"
LogsMode == "LogsMode"
MonitorMode == "MonitorMode"

Table(rows, cursor) == [rows |-> rows, cursor |-> cursor]

NewFullModel ==
    [currentTab |-> ContainersTab, currentMode |-> ListMode, statusMsg |-> "other",
     dockerConnected |-> TRUE,
     selectedID |-> Empty, selectedName |-> Empty, selectedPath |-> Empty,
     containers |-> <<>>, images |-> <<>>, volumes |-> <<>>, networks |-> <<>>,
     composeProjects |-> <<>>, composeContainers |-> <<>>,
     tables |-> [t \in ContainersTab..ComposeTab |-> Table(0, 0)],
     tablesReady |-> FALSE, viewport |-> "empty"]

NoMsg == [type |-> "none", key |-> "", success |-> FALSE, action |-> "", connected |-> FALSE,
          items |-> <<>>, projectName |-> Empty, eventType |-> "", id |-> Empty, cmds |-> <<>>]

\* what the claims need of a handled message
Handled(msg) ==
    [type |-> msg.type, key |-> msg.key, success |-> msg.success, action |-> msg.action,
     connected |-> msg.connected, eventType |-> msg.eventType, id |-> msg.id]

NoneHandled == Handled(NoMsg)

Selection(mm) == <<mm.selectedID, mm.selectedName, mm.selectedPath>>

NoOrigin == [state |-> "none", tab |-> ContainersTab, selection |-> Selection(NewFullModel)]

IdleUI ==
    /\ m = NewFullModel
    /\ inflight = EmptyBag
    /\ handled = NoneHandled
    /\ issued = <<>>
    /\ awaited = {}
    /\ origin = NoOrigin


IdleProjects ==
    /\ fsFiles = <<>>
    /\ pathEnv = [wd |-> {}, lsOk |-> FALSE, lsText |-> Empty]
    /\ lsOutcome = NoProjects
    /\ listed = <<>>
    /\ projects = <<>>
    /\ configProjects = <<>>
    /\ uniqueProjects = <<>>

IdleContainers ==
    /\ runtime = <<>>
    /\ projectName = Empty
    /\ containers = <<>>
    /\ psOutcome = NoPs
    /\ trace = <<>>

NoPath == [kind |-> "missing", path |-> Empty, files |-> {}, readOk |-> FALSE]

NoDeclaration == [bytes |-> "empty", top |-> "absent", entries |-> <<>>]

IdleServices ==
    /\ projectPath = NoPath
    /\ composeContent = NoDeclaration
    /\ composePath = Empty
    /\ services = <<>>
    /\ svcTrace = <<>>

NoFile == [entries |-> <<>>, width |-> 2, extra |-> "none", readOk |-> FALSE]

IdleInspect ==
    /\ declaration = NoFile
    /\ composeFileContent = Empty
    /\ composeServices = <<>>
    /\ serviceEntries = {}
    /\ tmpComposeServices = <<>>

(***************************************************************************)
(* ListComposeProjects.                                                    *)
(***************************************************************************)
\* lines 856-859: the listing subprocess is started and waited for
ListComposeProjects_Call ==
    /\ pc = "idle"
    /\ pc' = "lcp_ls"
    /\ proc' = "compose ls"
    /\ calledExpired' = (ctx = "expired")
    /\ op' = "projects"
    /\ UNCHANGED <<ctx, err>>
    /\ UNCHANGED projVars
    /\ UNCHANGED contVars
    /\ UNCHANGED svcVars
    /\ UNCHANGED inspVars
    /\ UNCHANGED uiVars

\* lines 859-898: the subprocess exits; an error is returned, else the output is parsed
ListComposeProjects_LsExit ==
    /\ pc = "lcp_ls"
    /\ \E o \in LsOutcomes :
          /\ lsOutcome' = [err |-> o.err, kind |-> o.out.kind,
                          name |-> IF o.out.kind = "object" THEN o.out.recs[1].Name ELSE Empty,
                          first |-> IF o.err = "none" /\ o.out.kind = "text"
                                    THEN Split(o.out.text, NL)[1] ELSE Empty]
          /\ IF o.err # "none"
             THEN /\ err' = o.err
                  /\ projects' = <<>>
                  /\ pc' = "done"
             ELSE /\ err' = "none"
                  /\ projects' = ParseLsOutput(pathEnv, o.out)
                  /\ pc' = "lcp_merge"
    /\ listed' = projects'
    /\ proc' = "none"
    /\ UNCHANGED <<ctx, calledExpired, op, fsFiles, pathEnv, configProjects, uniqueProjects>>
    /\ UNCHANGED contVars
    /\ UNCHANGED svcVars
    /\ UNCHANGED inspVars
    /\ UNCHANGED uiVars

\* lines 900-916
ListComposeProjects_Merge ==
    /\ pc = "lcp_merge"
    /\ configProjects' = tryExtractProjectsViaConfig(fsFiles)
    /\ projects' = MergeConfigProjects(projects, configProjects')
    /\ pc' = "lcp_dedup"
    /\ UNCHANGED <<ctx, calledExpired, proc, err, op, fsFiles, pathEnv, lsOutcome, listed, uniqueProjects>>
    /\ UNCHANGED contVars
    /\ UNCHANGED svcVars
    /\ UNCHANGED inspVars
    /\ UNCHANGED uiVars

\* lines 918-936
ListComposeProjects_Dedup ==
    /\ pc = "lcp_dedup"
    /\ uniqueProjects' = Deduplicate(pathEnv, projects)
    /\ pc' = "done"
    /\ UNCHANGED <<ctx, calledExpired, proc, err, op, fsFiles, pathEnv, lsOutcome, listed, projects, configProjects>>
    /\ UNCHANGED contVars
    /\ UNCHANGED svcVars
    /\ UNCHANGED inspVars
    /\ UNCHANGED uiVars

InitProjects ==
    /\ pc = "idle"
    /\ ctx \in {"live", "expired"}
    /\ calledExpired = FALSE
    /\ proc = "none"
    /\ err = "none"
    /\ op = "none"
    /\ fsFiles \in FsScans
    /\ pathEnv \in PathEnvs
    /\ lsOutcome = NoProjects
    /\ listed = <<>>
    /\ projects = <<>>
    /\ configProjects = <<>>
    /\ uniqueProjects = <<>>
    /\ IdleContainers
    /\ IdleServices
    /\ IdleInspect
    /\ IdleUI

NextProjects ==
    \/ ListComposeProjects_Call
    \/ ListComposeProjects_LsExit
    \/ ListComposeProjects_Merge
    \/ ListComposeProjects_Dedup
    \/ CtxExpire

SpecProjects == InitProjects /\ [][NextProjects]_vars

(***************************************************************************)
(* The container matchers: the data they read.                             *)
(***************************************************************************)
ShortIDLen == 12

\* `id[:12]` when the identifier is longer
ShortID(id) == IF Len(id) > ShortIDLen THEN SubSeq(id, 1, ShortIDLen) ELSE id

keyProject == <<"c", "o", "m", ".", "d", "o", "c", "k", "e", "r", ".", "c", "o", "m", "p", "o", "s", "e", ".", "p", "r", "o", "j", "e", "c", "t">>
keyService == <<"c", "o", "m", ".", "d", "o", "c", "k", "e", "r", ".", "c", "o", "m", "p", "o", "s", "e", ".", "s", "e", "r", "v", "i", "c", "e">>
keyTier == <<"t", "i", "e", "r">>

idA == <<"a", "1", "b", "2", "c", "3", "d", "4", "e", "5", "f", "6", "a", "a">>
idB == <<"b", "1", "b", "2", "c", "3", "d", "4", "e", "5", "f", "6", "b", "b">>
idC == <<"c", "1", "b", "2", "c", "3", "d", "4", "e", "5", "f", "6", "c", "c">>
idD == <<"d", "1", "b", "2", "c", "3", "d", "4", "e", "5", "f", "6", "d", "d">>
idE == <<"e", "1", "b", "2", "c", "3", "d", "4", "e", "5", "f", "6", "e", "e">>

nMyUApp == <<"m", "y", "_", "a", "p", "p">>
nMyDApp == <<"m", "y", "-", "a", "p", "p">>
nMyUAppCap == <<"M", "y", "_", "A", "p", "p">>
nMyapp == <<"m", "y", "a", "p", "p">>
nTest == <<"t", "e", "s", "t">>
nWeb == <<"w", "e", "b">>

\* a container of the daemon: types.Container (ID, Names, Labels) and whether
\* ContainerInspect answers for it
Container(id, name, labels, inspectOk) ==
    [ID |-> id, Names |-> <<(<<"/">> \o name)>>, Labels |-> labels, inspectOk |-> inspectOk]

Containers ==
    { Container(idA, <<"m", "y", "-", "a", "p", "p", "-", "w", "e", "b", "-", "1">>, {}, TRUE),
      Container(idB, <<"m", "y", "_", "a", "p", "p", "_", "w", "e", "b", "_", "1">>,
                {<<keyProject, nMyUApp>>, <<keyService, nWeb>>}, FALSE),
      Container(idC, nWeb, {<<keyProject, nMyDApp>>, <<keyTier, nMyapp>>}, TRUE),
      Container(idD, <<"d", "b">>, {<<keyProject, nMyUApp>>}, FALSE),
      Container(idE, <<"m", "y", "a", "p", "p", "-", "w", "e", "b", "-", "1">>, {<<keyTier, nWeb>>}, TRUE) }

\* the daemon's lists: containers with distinct identifiers
Runtimes ==
    {r \in SeqsUpTo(Containers, MaxContainers) :
        \A i, j \in 1..Len(r) : i # j => r[i].ID # r[j].ID}

ProjectNames == {nMyUApp, nMyDApp, nMyUAppCap, nMyapp, nTest, Empty}

\* ContainerInfo, without the fields (Image, Command, Status, State, Created,
\* Ports) that the matchers copy and never read
ContainerInfo(id, name) == [ID |-> id, Name |-> name]

\* one element of the JSON array of `docker compose ps --format json`
PsRec(hasID, id, name, service) == [hasID |-> hasID, ID |-> id, Name |-> name, Service |-> service]

PsRecs ==
    { PsRec(TRUE, idA, <<"m", "y", "-", "a", "p", "p", "-", "w", "e", "b", "-", "1">>, nWeb),
      PsRec(TRUE, ShortID(idB), <<"m", "y", "_", "a", "p", "p", "_", "w", "e", "b", "_", "1">>, Empty),
      PsRec(TRUE, SubSeq(idC, 1, 4), nWeb, nWeb),
      PsRec(TRUE, Empty, <<"g", "h", "o", "s", "t">>, nWeb),
      PsRec(FALSE, Empty, <<"g", "h", "o", "s", "t">>, Empty) }

PsJsonText(r) == <<"{", "\"", "I", "D", "\"", ":", "\"">> \o r.ID \o <<"\"", "}">>

psHeader == <<"I", "D", " ", "N", "A", "M", "E", " ", "S", "T", "A", "T", "U", "S">>
psRow4 == <<"b", "1", "b", "2", "c", "3", "d", "4", "e", "5", "f", "6", " ", "m", "y", "_", "a", "p", "p", "_", "w", "e", "b", "_", "1", " ", "U", "p", " ", "2", "h">>
psRow3 == <<"c", "1", "b", "2", "c", "3", "d", "4", "e", "5", "f", "6", "c", "c", " ", "w", "e", "b", " ", "e", "x", "i", "t", "e", "d">>
psRow2 == <<"x", " ", "y">>

PsLines == {psHeader, psRow4, psRow3, psRow2}

PsTexts == {Join(ls, NL) : ls \in SeqsUpTo(PsLines, MaxLines)}

\* the single objects the tool may print: one with a full identifier, one
\* with an empty one
PsObjects == {q \in PsRecs : q.hasID /\ Len(q.ID) \in {0, Len(idA)}}

\* how a `ps` subprocess may end: err "none" (exit 0) or "fail"; the output is
\* a JSON array, a single JSON object, or text (possibly empty)
PsOutcomes ==
       {[err |-> "none", kind |-> "array", recs |-> rs, text |-> <<"[", "]">>] :
            rs \in SeqsUpTo(PsRecs, MaxRecs)}
  \cup {[err |-> "none", kind |-> "object", recs |-> <<r>>, text |-> PsJsonText(r)] :
            r \in PsObjects}
  \cup {[err |-> "none", kind |-> "text", recs |-> <<>>, text |-> t] : t \in PsTexts}
  \cup {[err |-> "fail", kind |-> "text", recs |-> <<>>, text |-> Empty]}

\* the outcomes of the two commands without --format: text, whatever it is
PsPlainOutcomes == {o \in PsOutcomes : o.kind = "text"}

(***************************************************************************)
(* The container matchers: their helpers.                                  *)
(***************************************************************************)
\* Names[0][1:]
ContainerName(c) == IF Len(c.Names) > 0 THEN Tail(c.Names[1]) ELSE Empty

\* fmt.Sprintf("%s (%s)", name, service)
WithService(name, service) == name \o <<" ", "(">> \o service \o <<")">>

LabelValue(c, key) ==
    IF \E l \in c.Labels : l[1] = key
    THEN (CHOOSE l \in c.Labels : l[1] = key)[2]
    ELSE Empty

\* Service.ListContainers, lines 300-322
RECURSIVE ListContainers(_)
ListContainers(rt) ==
    IF rt = <<>> THEN <<>>
    ELSE <<ContainerInfo(ShortID(Head(rt).ID), ContainerName(Head(rt)))>>
         \o ListContainers(Tail(rt))

\* the daemon's answer to ContainerList with the filter label=key=value
LabelFilter(rt, key, value) == SelectSeq(rt, LAMBDA c : <<key, value>> \in c.Labels)

RECURSIVE LabelledInfos(_)
LabelledInfos(cs) ==
    IF cs = <<>> THEN <<>>
    ELSE LET c == Head(cs)
             service == LabelValue(c, keyService)
         IN  <<ContainerInfo(ShortID(c.ID),
                             IF service # Empty
                             THEN WithService(ContainerName(c), service)
                             ELSE ContainerName(c))>>
             \o LabelledInfos(Tail(cs))

\* lines 1467-1525; the client call fails on an expired context
getContainersByProjectName(c, rt, name) ==
    IF c = "expired" THEN <<>>
    ELSE LabelledInfos(LabelFilter(rt, keyProject, name))

\* the records built with the identifier as the tool printed it
RECURSIVE PsJsonInfosUntruncated(_)
PsJsonInfosUntruncated(recs) ==
    IF recs = <<>> THEN <<>>
    ELSE LET r == Head(recs)
         IN  (IF r.ID # Empty
              THEN <<ContainerInfo(r.ID,
                                   IF r.Service # Empty THEN WithService(r.Name, r.Service)
                                   ELSE r.Name)>>
              ELSE <<>>)
             \o PsJsonInfosUntruncated(Tail(recs))

\* lines 1541-1570: one record per element with a non-empty ID
RECURSIVE PsJsonInfos(_)
PsJsonInfos(recs) ==
    IF recs = <<>> THEN <<>>
    ELSE LET r == Head(recs)
         IN  (IF r.ID # Empty
              THEN <<ContainerInfo(ShortID(r.ID),
                                   IF r.Service # Empty THEN WithService(r.Name, r.Service)
                                   ELSE r.Name)>>
              ELSE <<>>)
             \o PsJsonInfos(Tail(recs))

\* lines 1606-1657, one line
PsTextLine(i, line) ==
    LET parts == Fields(line)
        nameParts == Split(parts[2], <<"_">>)
    IN  IF i = 0 \/ TrimSpace(line) = Empty THEN <<>>
        ELSE IF Len(parts) >= 3
        THEN <<ContainerInfo(ShortID(parts[1]),
                             IF Len(nameParts) > 1 /\ nameParts[2] # Empty
                             THEN WithService(parts[2], nameParts[2])
                             ELSE parts[2])>>
        ELSE <<>>

RECURSIVE PsTextLines(_, _)
PsTextLines(lines, i) ==
    IF i >= Len(lines) THEN <<>>
    ELSE PsTextLine(i, lines[i + 1]) \o PsTextLines(lines, i + 1)

parseComposeTextOutput(output) == PsTextLines(Split(output, NL), 0)

\* lines 1664-1691
addTestContainers(name) ==
    << ContainerInfo(<<"t", "e", "s", "t", "1", "2", "3", "4", "5", "6", "7">>,
                     name \o <<"_", "m", "o", "n", "g", "o", "d", "b", "_", "1", " ", "(", "m", "o", "n", "g", "o", "d", "b", ")">>),
       ContainerInfo(<<"t", "e", "s", "t", "7", "6", "5", "4", "3", "2", "1">>,
                     name \o <<"_", "a", "p", "i", "_", "1", " ", "(", "a", "p", "i", ")">>) >>

\* the guard of the fallbacks dropped: every strategy runs
NoneFoundAlways(cs) == TRUE

\* `len(containers) == 0`, the guard of every fallback
NoneFound(cs) == Len(cs) = 0

\* an executed strategy and what it returned
Ran(strategy, out) == [s |-> strategy, out |-> out]

(***************************************************************************)
(* Service.ListComposeContainers.                                          *)
(***************************************************************************)
\* lines 1428-1431
ListComposeContainers_Call ==
    /\ pc = "idle"
    /\ \E name \in ProjectNames :
          /\ projectName' = name
          /\ IF name = Empty
             THEN err' = "no project name provided" /\ pc' = "done"
             ELSE err' = "none" /\ pc' = "lcc_label"
    /\ op' = "list"
    /\ calledExpired' = (ctx = "expired")
    /\ UNCHANGED <<ctx, proc, runtime, containers, trace>>
    /\ UNCHANGED psOutcome
    /\ UNCHANGED projVars
    /\ UNCHANGED svcVars
    /\ UNCHANGED inspVars
    /\ UNCHANGED uiVars

\* lines 1433-1434: the label lookup
ListComposeContainers_Label ==
    /\ pc = "lcc_label"
    /\ containers' = getContainersByProjectName(ctx, runtime, projectName)
    /\ trace' = Append(trace, Ran("label", containers'))
    /\ pc' = "lcc_alt"
    /\ UNCHANGED <<ctx, calledExpired, proc, err, op, runtime, projectName>>
    /\ UNCHANGED psOutcome
    /\ UNCHANGED projVars
    /\ UNCHANGED svcVars
    /\ UNCHANGED inspVars
    /\ UNCHANGED uiVars

\* lines 1436-1443: the lookup with underscores replaced by dashes
ListComposeContainers_Alt ==
    /\ pc = "lcc_alt"
    /\ LET altProjectName == ReplaceAll(projectName, <<"_">>, <<"-">>)
       IN  IF NoneFound(containers) /\ altProjectName # projectName
           THEN /\ containers' = getContainersByProjectName(ctx, runtime, altProjectName)
                /\ trace' = Append(trace, Ran("alt", containers'))
           ELSE UNCHANGED <<containers, trace>>
    /\ pc' = "lcc_lower"
    /\ UNCHANGED <<ctx, calledExpired, proc, err, op, runtime, projectName>>
    /\ UNCHANGED psOutcome
    /\ UNCHANGED projVars
    /\ UNCHANGED svcVars
    /\ UNCHANGED inspVars
    /\ UNCHANGED uiVars

\* lines 1445-1451: the lookup with the lowercased name
ListComposeContainers_Lower ==
    /\ pc = "lcc_lower"
    /\ LET normalizedProjectName == ToLower(projectName)
       IN  IF NoneFound(containers) /\ normalizedProjectName # projectName
           THEN /\ containers' = getContainersByProjectName(ctx, runtime, normalizedProjectName)
                /\ trace' = Append(trace, Ran("lower", containers'))
           ELSE UNCHANGED <<containers, trace>>
    /\ pc' = "lcc_cmd"
    /\ UNCHANGED <<ctx, calledExpired, proc, err, op, runtime, projectName>>
    /\ UNCHANGED psOutcome
    /\ UNCHANGED projVars
    /\ UNCHANGED svcVars
    /\ UNCHANGED inspVars
    /\ UNCHANGED uiVars

\* lines 1453-1456 and 1532-1533: the tool is started only when nothing was found
ListComposeContainers_Cmd ==
    /\ pc = "lcc_cmd"
    /\ IF NoneFound(containers)
       THEN proc' = "compose ps json" /\ pc' = "lcc_psjson"
       ELSE proc' = proc /\ pc' = "lcc_test"
    /\ UNCHANGED <<ctx, calledExpired, err, op, runtime, projectName, containers, trace>>
    /\ UNCHANGED psOutcome
    /\ UNCHANGED projVars
    /\ UNCHANGED svcVars
    /\ UNCHANGED inspVars
    /\ UNCHANGED uiVars

\* what a `ps` command printed, as the code takes it: a JSON array or a single
\* object with its elements, a text with its first line, or nothing usable
PsSeen(o) ==
    LET usable == o.err = "none" /\ Len(o.text) > 0
    IN  [kind |-> IF usable THEN o.kind ELSE "other",
         recs |-> IF usable /\ o.kind \in {"array", "object"} THEN o.recs ELSE <<>>,
         first |-> IF usable /\ o.kind = "text" THEN Split(o.text, NL)[1] ELSE Empty]

\* getContainersByComposeCommand returns infos to line 1455
ToolReturns(infos) ==
    /\ containers' = infos
    /\ trace' = Append(trace, Ran("tool", infos))
    /\ proc' = "none"
    /\ pc' = "lcc_test"

\* the next command of getContainersByComposeCommand is started
ToolRetries(cmd, at) ==
    /\ proc' = cmd
    /\ pc' = at
    /\ UNCHANGED <<containers, trace>>

\* lines 1533-1584: `docker compose ps --format json` exits
ListComposeContainers_PsJsonExit ==
    /\ pc = "lcc_psjson"
    /\ \E o \in PsOutcomes :
          LET infos == IF o.kind = "array" THEN PsJsonInfos(o.recs)
                       ELSE parseComposeTextOutput(o.text)
          IN  /\ psOutcome' = PsSeen(o)
              /\ IF o.err = "none" /\ Len(o.text) > 0 /\ (o.kind = "array" \/ Len(infos) > 0)
                 THEN ToolReturns(infos)
                 ELSE ToolRetries("compose ps", "lcc_ps")
    /\ UNCHANGED <<ctx, calledExpired, err, op, runtime, projectName>>
    /\ UNCHANGED projVars
    /\ UNCHANGED svcVars
    /\ UNCHANGED inspVars
    /\ UNCHANGED uiVars

\* lines 1585-1592: `docker compose ps` exits
ListComposeContainers_PsExit ==
    /\ pc = "lcc_ps"
    /\ \E o \in PsPlainOutcomes :
          /\ psOutcome' = PsSeen(o)
          /\ IF o.err = "none" /\ Len(o.text) > 0
             THEN ToolReturns(parseComposeTextOutput(o.text))
             ELSE ToolRetries("docker-compose ps", "lcc_legacy")
    /\ UNCHANGED <<ctx, calledExpired, err, op, runtime, projectName>>
    /\ UNCHANGED projVars
    /\ UNCHANGED svcVars
    /\ UNCHANGED inspVars
    /\ UNCHANGED uiVars

\* lines 1593-1598: `docker-compose ps` exits
ListComposeContainers_LegacyExit ==
    /\ pc = "lcc_legacy"
    /\ \E o \in PsPlainOutcomes :
          /\ psOutcome' = PsSeen(o)
          /\ IF o.err = "none" /\ Len(o.text) > 0
             THEN ToolReturns(parseComposeTextOutput(o.text))
             ELSE ToolReturns(<<>>)
    /\ UNCHANGED <<ctx, calledExpired, err, op, runtime, projectName>>
    /\ UNCHANGED projVars
    /\ UNCHANGED svcVars
    /\ UNCHANGED inspVars
    /\ UNCHANGED uiVars

\* lines 1458-1463
ListComposeContainers_Test ==
    /\ pc = "lcc_test"
    /\ containers' = IF NoneFound(containers) /\ projectName = nTest
                     THEN addTestContainers(projectName) ELSE containers
    /\ pc' = "done"
    /\ UNCHANGED <<ctx, calledExpired, proc, err, op, runtime, projectName, trace>>
    /\ UNCHANGED psOutcome
    /\ UNCHANGED projVars
    /\ UNCHANGED svcVars
    /\ UNCHANGED inspVars
    /\ UNCHANGED uiVars

(***************************************************************************)
(* views.FetchComposeContainers.                                           *)
(***************************************************************************)
\* the name test without the underscore variant
NameMatchesNoUnderscore(containerNameLower, normalizedProjectName, dashVariant, underscoreVariant) ==
    \/ Contains(containerNameLower, normalizedProjectName)
    \/ Contains(containerNameLower, dashVariant)

\* lines 2177-2179
NameMatches(containerNameLower, normalizedProjectName, dashVariant, underscoreVariant) ==
    \/ Contains(containerNameLower, normalizedProjectName)
    \/ Contains(containerNameLower, dashVariant)
    \/ Contains(containerNameLower, underscoreVariant)

\* lines 2206-2224, one label
LabelMatches(k, labelVal, name, normalizedProjectName, dashVariant, underscoreVariant) ==
    \/ /\ k = keyProject
       /\ \/ EqualFold(labelVal, name)
          \/ EqualFold(labelVal, dashVariant)
          \/ EqualFold(labelVal, underscoreVariant)
    \/ /\ \/ Contains(ToLower(k), <<"c", "o", "m", "p", "o", "s", "e">>)
          \/ Contains(ToLower(k), <<"p", "r", "o", "j", "e", "c", "t">>)
       /\ NameMatches(ToLower(labelVal), normalizedProjectName, dashVariant, underscoreVariant)

\* lines 2187-2190: InspectContainer fails on an expired context or for the container
InspectOk(c, cont) == c = "live" /\ cont.inspectOk

\* lines 2171-2230, one container: selected by its name, else by a label
FirstPassSelects(c, cont, name) ==
    LET normalizedProjectName == ToLower(name)
        dashVariant == ReplaceAll(normalizedProjectName, <<"_">>, <<"-">>)
        underscoreVariant == ReplaceAll(normalizedProjectName, <<"-">>, <<"_">>)
    IN  \/ NameMatches(ToLower(ContainerName(cont)), normalizedProjectName,
                       dashVariant, underscoreVariant)
        \/ /\ InspectOk(c, cont)
           /\ \E l \in cont.Labels :
                 LabelMatches(l[1], l[2], name, normalizedProjectName,
                              dashVariant, underscoreVariant)

\* the pass given up at the first container whose inspection fails
RECURSIVE FirstPassStopsOnInspectError(_, _, _)
FirstPassStopsOnInspectError(c, rt, name) ==
    IF rt = <<>> THEN <<>>
    ELSE IF FirstPassSelects(c, Head(rt), name)
    THEN ListContainers(<<Head(rt)>>) \o FirstPassStopsOnInspectError(c, Tail(rt), name)
    ELSE IF ~InspectOk(c, Head(rt)) THEN <<>>
    ELSE FirstPassStopsOnInspectError(c, Tail(rt), name)

RECURSIVE FirstPass(_, _, _)
FirstPass(c, rt, name) ==
    IF rt = <<>> THEN <<>>
    ELSE (IF FirstPassSelects(c, Head(rt), name)
          THEN ListContainers(<<Head(rt)>>) ELSE <<>>)
         \o FirstPass(c, Tail(rt), name)

\* lines 2245-2247
IdMatches(existingID, id) ==
    \/ HasPrefix(existingID, id)
    \/ /\ Len(id) >= ShortIDLen
       /\ Len(existingID) >= ShortIDLen
       /\ HasPrefix(existingID, SubSeq(id, 1, ShortIDLen))

\* lines 2250-2258, 2279-2288
AddOnce(acc, info) ==
    IF \E i \in 1..Len(acc) : acc[i].ID = info.ID THEN acc ELSE Append(acc, info)

\* lines 2241-2263
RECURSIVE CrossReference(_, _, _)
CrossReference(recs, all, acc) ==
    IF recs = <<>> THEN acc
    ELSE LET r == Head(recs)
             hits == {i \in 1..Len(all) : IdMatches(all[i].ID, r.ID)}
         IN  CrossReference(Tail(recs), all,
                 IF ~r.hasID \/ hits = {} THEN acc
                 ELSE AddOnce(acc, all[CHOOSE i \in hits : \A j \in hits : i <= j]))

\* lines 2273-2277
TokenMatches(containerName, name) ==
    LET normalizedProjectName == ToLower(name)
        dashVariant == ReplaceAll(normalizedProjectName, <<"_">>, <<"-">>)
        underscoreVariant == ReplaceAll(normalizedProjectName, <<"-">>, <<"_">>)
        parts == Split(containerName, <<"_">>)
    IN  \E i \in 1..Len(parts) :
           \/ EqualFold(parts[i], normalizedProjectName)
           \/ EqualFold(parts[i], dashVariant)
           \/ EqualFold(parts[i], underscoreVariant)

\* lines 2271-2292
RECURSIVE DeepScan(_, _, _)
DeepScan(all, name, acc) ==
    IF all = <<>> THEN acc
    ELSE DeepScan(Tail(all), name,
                  IF TokenMatches(Head(all).Name, name) THEN AddOnce(acc, Head(all)) ELSE acc)

\* lines 2145-2165: the daemon's list is fetched; it fails on an expired context
FetchComposeContainers_Call ==
    /\ pc = "idle"
    /\ \E name \in ProjectNames :
          /\ projectName' = name
          /\ IF name = Empty
             THEN err' = "no project selected" /\ pc' = "done"
             ELSE IF ctx = "expired"
             THEN err' = "context" /\ pc' = "done"
             ELSE err' = "none" /\ pc' = "fetch_first"
    /\ op' = "fetch"
    /\ calledExpired' = (ctx = "expired")
    /\ UNCHANGED <<ctx, proc, runtime, containers, trace>>
    /\ UNCHANGED psOutcome
    /\ UNCHANGED projVars
    /\ UNCHANGED svcVars
    /\ UNCHANGED inspVars
    /\ UNCHANGED uiVars

\* lines 2167-2230: the pass over names and labels
FetchComposeContainers_FirstPass ==
    /\ pc = "fetch_first"
    /\ containers' = FirstPass(ctx, runtime, projectName)
    /\ trace' = Append(trace, Ran("first", containers'))
    /\ pc' = "fetch_cmd"
    /\ UNCHANGED <<ctx, calledExpired, proc, err, op, runtime, projectName>>
    /\ UNCHANGED psOutcome
    /\ UNCHANGED projVars
    /\ UNCHANGED svcVars
    /\ UNCHANGED inspVars
    /\ UNCHANGED uiVars

\* lines 2232-2236: the tool is started only when nothing was found
FetchComposeContainers_Cmd ==
    /\ pc = "fetch_cmd"
    /\ IF NoneFound(containers)
       THEN proc' = "compose ps json" /\ pc' = "fetch_psjson"
       ELSE proc' = proc /\ pc' = "fetch_deep"
    /\ UNCHANGED <<ctx, calledExpired, err, op, runtime, projectName, containers, trace>>
    /\ UNCHANGED psOutcome
    /\ UNCHANGED projVars
    /\ UNCHANGED svcVars
    /\ UNCHANGED inspVars
    /\ UNCHANGED uiVars

\* lines 2236-2266: the tool exits (seen: what it printed is kept for the
\* record)
FetchComposeContainers_PsJsonExit(seen) ==
    /\ pc = "fetch_psjson"
    /\ \E o \in PsOutcomes :
          /\ containers' = IF o.err = "none" /\ Len(o.text) > 0 /\ o.kind = "array"
                           THEN CrossReference(o.recs, ListContainers(runtime), containers)
                           ELSE containers
          /\ psOutcome' = IF seen THEN PsSeen(o) ELSE psOutcome
    /\ trace' = Append(trace, Ran("tool", containers'))
    /\ proc' = "none"
    /\ pc' = "fetch_deep"
    /\ UNCHANGED <<ctx, calledExpired, err, op, runtime, projectName>>
    /\ UNCHANGED projVars
    /\ UNCHANGED svcVars
    /\ UNCHANGED inspVars
    /\ UNCHANGED uiVars

\* lines 2268-2295: the scan of the name tokens, and the return
FetchComposeContainers_Deep ==
    /\ pc = "fetch_deep"
    /\ IF NoneFound(containers)
       THEN /\ containers' = DeepScan(ListContainers(runtime), projectName, containers)
            /\ trace' = Append(trace, Ran("deep", containers'))
       ELSE UNCHANGED <<containers, trace>>
    /\ pc' = "done"
    /\ UNCHANGED <<ctx, calledExpired, proc, err, op, runtime, projectName>>
    /\ UNCHANGED psOutcome
    /\ UNCHANGED projVars
    /\ UNCHANGED svcVars
    /\ UNCHANGED inspVars
    /\ UNCHANGED uiVars

InitContainers ==
    /\ pc = "idle"
    /\ ctx \in {"live", "expired"}
    /\ calledExpired = FALSE
    /\ proc = "none"
    /\ err = "none"
    /\ op = "none"
    /\ IdleProjects
    /\ runtime \in Runtimes
    /\ projectName = Empty
    /\ containers = <<>>
    /\ psOutcome = NoPs
    /\ trace = <<>>
    /\ IdleServices
    /\ IdleInspect
    /\ IdleUI

NextContainers ==
    \/ ListComposeContainers_Call
    \/ ListComposeContainers_Label
    \/ ListComposeContainers_Alt
    \/ ListComposeContainers_Lower
    \/ ListComposeContainers_Cmd
    \/ ListComposeContainers_PsJsonExit
    \/ ListComposeContainers_PsExit
    \/ ListComposeContainers_LegacyExit
    \/ ListComposeContainers_Test
    \/ FetchComposeContainers_Call
    \/ FetchComposeContainers_FirstPass
    \/ FetchComposeContainers_Cmd
    \/ FetchComposeContainers_PsJsonExit(FALSE)
    \/ FetchComposeContainers_Deep
    \/ CtxExpire

SpecContainers == InitContainers /\ [][NextContainers]_vars

\* FetchComposeContainers alone, with what the tool printed on record
NextFetch ==
    \/ FetchComposeContainers_Call
    \/ FetchComposeContainers_FirstPass
    \/ FetchComposeContainers_Cmd
    \/ FetchComposeContainers_PsJsonExit(TRUE)
    \/ FetchComposeContainers_Deep

SpecFetch == InitContainers /\ [][NextFetch]_vars

(***************************************************************************)
(* Service.ListComposeServices: the data it reads.                         *)
(***************************************************************************)
\* ComposeServiceInfo, without the fields (Status, Containers, CPU, Memory,
\* MemoryLimit) that the lister never sets
ComposeServiceInfo(name, image, ports) == [Name |-> name, Image |-> image, Ports |-> ports]

dockerComposeYml == <<"d", "o", "c", "k", "e", "r", "-", "c", "o", "m", "p", "o", "s", "e", ".", "y", "m", "l">>
dockerComposeYaml == <<"d", "o", "c", "k", "e", "r", "-", "c", "o", "m", "p", "o", "s", "e", ".", "y", "a", "m", "l">>
composeYml == <<"c", "o", "m", "p", "o", "s", "e", ".", "y", "m", "l">>
composeYaml == <<"c", "o", "m", "p", "o", "s", "e", ".", "y", "a", "m", "l">>

\* lines 1317-1322, without the directory
possibleFiles == <<dockerComposeYml, dockerComposeYaml, composeYml, composeYaml>>

pathDir == <<"/", "s", "r", "v", "/", "a", "p", "p">>
pathFile == <<"/", "s", "r", "v", "/", "a", "p", "p", "/", "s", "t", "a", "c", "k", ".", "y", "m", "l">>

\* the path given: nothing, a regular file, or a directory holding some of
\* the candidate files; readOk: whether os.ReadFile succeeds
ProjectPaths ==
    { [kind |-> "missing", path |-> pathDir, files |-> {}, readOk |-> FALSE],
      [kind |-> "file", path |-> pathFile, files |-> {}, readOk |-> TRUE],
      [kind |-> "file", path |-> pathFile, files |-> {}, readOk |-> FALSE],
      [kind |-> "dir", path |-> pathDir, files |-> {}, readOk |-> FALSE],
      [kind |-> "dir", path |-> pathDir, files |-> {composeYaml}, readOk |-> TRUE],
      [kind |-> "dir", path |-> pathDir, files |-> {composeYml, dockerComposeYaml}, readOk |-> TRUE] }

\* a value as yaml.Unmarshal decodes it into interface{}: a string, or an
\* integer (s: as the file writes it), or no value at all
YamlString(s) == [t |-> "string", s |-> s]
YamlInt == [t |-> "int", s |-> <<"9", "0", "0", "0">>]
YamlAbsent == [t |-> "absent", s |-> Empty]

\* a value that may be a list: []interface{} with its items, or not
YamlList(items) == [t |-> "list", items |-> items]
YamlNoList(t) == [t |-> t, items |-> <<>>]

\* one entry under the services key
ServiceEntry(name, isMap, image, ports) ==
    [name |-> name, isMap |-> isMap, image |-> image, ports |-> ports]

nDb == <<"d", "b">>
nApi == <<"a", "p", "i">>
imgNginx == <<"n", "g", "i", "n", "x", ":", "l", "a", "t", "e", "s", "t">>
imgPostgres == <<"p", "o", "s", "t", "g", "r", "e", "s", ":", "1", "4">>
port8080 == <<"8", "0", "8", "0", ":", "8", "0">>
port443 == <<"4", "4", "3", ":", "4", "4", "3">>

entryWeb == ServiceEntry(nWeb, TRUE, YamlString(imgNginx), YamlList(<<YamlString(port8080)>>))
entryDb == ServiceEntry(nDb, TRUE, YamlString(imgPostgres), YamlNoList("absent"))
entryApi == ServiceEntry(nApi, TRUE, YamlAbsent,
                         YamlList(<<YamlString(port443), YamlInt, YamlString(port8080)>>))
entryJob == ServiceEntry(<<"j", "o", "b">>, TRUE, YamlInt, YamlNoList("int"))
entryScalar == ServiceEntry(<<"x">>, FALSE, YamlAbsent, YamlNoList("absent"))

ServiceEntries == {entryWeb, entryDb, entryApi, entryJob, entryScalar}

\* the entries of a services mapping in the order of the file: distinct keys
ServiceMaps ==
    {es \in SeqsUpTo(ServiceEntries, MaxSvcs) :
        \A i, j \in 1..Len(es) : i # j => es[i].name # es[j].name}

\* the file: no byte at all, bytes yaml.Unmarshal rejects, or a document
\* whose services key is absent, not a mapping, or a mapping
Declarations ==
       {[bytes |-> "empty", top |-> "absent", entries |-> <<>>],
        [bytes |-> "invalid", top |-> "absent", entries |-> <<>>],
        [bytes |-> "yaml", top |-> "absent", entries |-> <<>>],
        [bytes |-> "yaml", top |-> "scalar", entries |-> <<>>]}
  \cup {[bytes |-> "yaml", top |-> "map", entries |-> es] : es \in ServiceMaps}

svcLineWeb == <<"w", "e", "b">>
svcLineDb == <<" ", "d", "b", " ">>
svcLineBlank == <<" ", " ">>

SvcLines == {svcLineWeb, svcLineDb, svcLineBlank, Empty}

\* how `docker compose --file f config --services` may end
SvcToolOutcomes ==
       {[err |-> "none", text |-> Join(ls, NL)] : ls \in SeqsUpTo(SvcLines, MaxLines)}
  \cup {[err |-> "fail", text |-> Empty]}

(***************************************************************************)
(* Service.ListComposeServices: its helpers.                               *)
(***************************************************************************)
\* lines 1312-1334: the file itself, else the first candidate that exists
FindComposeFile(p) ==
    LET found == {i \in 1..Len(possibleFiles) : possibleFiles[i] \in p.files}
    IN  IF p.kind = "file" THEN p.path
        ELSE IF found = {} THEN Empty
        ELSE p.path \o <<"/">> \o possibleFiles[CHOOSE i \in found : \A j \in found : i <= j]

\* the empty file taken for a declaration like any other
EmptyFileIgnored(content) == FALSE

\* line 1342: len(composeContent) == 0
EmptyFile(content) == content.bytes = "empty"

\* yaml.Unmarshal, line 1348: it fails on bytes that are no YAML
UnmarshalFails(content) == content.bytes = "invalid"

\* line 1354: composeData["services"].(map[string]interface{})
HasServicesMap(content) == content.bytes = "yaml" /\ content.top = "map"

\* lines 1373-1375
ExtractImage(serviceMap) ==
    IF serviceMap.image.t = "string" THEN serviceMap.image.s ELSE Empty

RECURSIVE StringItems(_)
StringItems(items) ==
    IF items = <<>> THEN <<>>
    ELSE (IF Head(items).t = "string" THEN <<Head(items).s>> ELSE <<>>)
         \o StringItems(Tail(items))

\* the ports list cut after its first item
ExtractPortsFirstOnly(serviceMap) ==
    IF serviceMap.ports.t = "list"
    THEN SubSeq(StringItems(serviceMap.ports.items), 1, 1) ELSE <<>>

\* lines 1378-1384
ExtractPorts(serviceMap) ==
    IF serviceMap.ports.t = "list" THEN StringItems(serviceMap.ports.items) ELSE <<>>

\* lines 1361-1388, for the entries in the order the map iteration visits them
RECURSIVE ProcessServices(_)
ProcessServices(entries) ==
    IF entries = <<>> THEN <<>>
    ELSE (IF Head(entries).isMap
          THEN <<ComposeServiceInfo(Head(entries).name, ExtractImage(Head(entries)),
                                    ExtractPorts(Head(entries)))>>
          ELSE <<>>)
         \o ProcessServices(Tail(entries))

\* the orders in which `range servicesMap` may visit the entries
MapOrders(entries) ==
    {o \in [1..Len(entries) -> 1..Len(entries)] : \A i, j \in 1..Len(entries) : i # j => o[i] # o[j]}

Visit(entries, o) == [i \in 1..Len(entries) |-> entries[o[i]]]

\* lines 1398-1408
RECURSIVE NamedServices(_)
NamedServices(serviceNames) ==
    IF serviceNames = <<>> THEN <<>>
    ELSE (IF TrimSpace(Head(serviceNames)) # Empty
          THEN <<ComposeServiceInfo(TrimSpace(Head(serviceNames)), Empty, <<>>)>>
          ELSE <<>>)
         \o NamedServices(Tail(serviceNames))

ToolServices(output) == NamedServices(Split(TrimSpace(output), NL))

\* lines 1417-1421
testService == ComposeServiceInfo(<<"t", "e", "s", "t", "-", "s", "e", "r", "v", "i", "c", "e">>, <<"t", "e", "s", "t", "/", "i", "m", "a", "g", "e", ":", "l", "a", "t", "e", "s", "t">>, <<port8080>>)

(***************************************************************************)
(* Service.ListComposeServices.                                            *)
(***************************************************************************)
\* the operation returns an error, and nil for the services
ServicesFail(e) ==
    /\ err' = e
    /\ pc' = "done"
    /\ UNCHANGED <<proc, services, svcTrace>>

\* lines 1300-1344: the file is found and read
ListComposeServices_Call ==
    /\ pc = "idle"
    /\ op' = "services"
    /\ calledExpired' = (ctx = "expired")
    /\ IF projectPath.kind = "missing"
       THEN composePath' = Empty /\ ServicesFail("project path does not exist")
       ELSE /\ composePath' = FindComposeFile(projectPath)
            /\ IF composePath' = Empty THEN ServicesFail("no compose file found in path")
               ELSE IF ~projectPath.readOk THEN ServicesFail("failed to read compose file")
               ELSE IF EmptyFile(composeContent) THEN ServicesFail("compose file is empty")
               ELSE /\ pc' = "lcs_parse"
                    /\ UNCHANGED <<err, proc, services, svcTrace>>
    /\ UNCHANGED <<ctx, projectPath, composeContent>>
    /\ UNCHANGED projVars
    /\ UNCHANGED contVars
    /\ UNCHANGED inspVars
    /\ UNCHANGED uiVars

\* lines 1346-1394: the declaration is parsed; the tool is started when it
\* yields no service, else the services are returned (lines 1415, 1424)
ListComposeServices_Parse ==
    /\ pc = "lcs_parse"
    /\ IF UnmarshalFails(composeContent)
       THEN ServicesFail("failed to parse compose file")
       ELSE IF ~HasServicesMap(composeContent)
       THEN ServicesFail("no services found in compose file or invalid format")
       ELSE \E o \in MapOrders(composeContent.entries) :
               /\ services' = ProcessServices(Visit(composeContent.entries, o))
               /\ svcTrace' = Append(svcTrace, Ran("parse", services'))
               /\ IF Len(services') = 0
                  THEN proc' = "compose config services" /\ pc' = "lcs_tool"
                  ELSE proc' = proc /\ pc' = "done"
               /\ err' = err
    /\ UNCHANGED <<ctx, calledExpired, op, projectPath, composeContent, composePath>>
    /\ UNCHANGED projVars
    /\ UNCHANGED contVars
    /\ UNCHANGED inspVars
    /\ UNCHANGED uiVars

\* lines 1394-1424: the tool exits; its lines are the services, and when there
\* is still none the test service is
ListComposeServices_ConfigExit ==
    /\ pc = "lcs_tool"
    /\ \E o \in SvcToolOutcomes :
          LET named == IF o.err = "none" THEN ToolServices(o.text) ELSE services
              ran == Append(svcTrace, Ran(IF o.err = "none" THEN "tool" ELSE "tool failed", o.text))
          IN  IF Len(named) = 0
              THEN /\ services' = <<testService>>
                   /\ svcTrace' = Append(ran, Ran("dummy", services'))
              ELSE /\ services' = named
                   /\ svcTrace' = ran
    /\ proc' = "none"
    /\ pc' = "done"
    /\ UNCHANGED <<ctx, calledExpired, err, op, projectPath, composeContent, composePath>>
    /\ UNCHANGED projVars
    /\ UNCHANGED contVars
    /\ UNCHANGED inspVars
    /\ UNCHANGED uiVars

InitServices ==
    /\ pc = "idle"
    /\ ctx \in {"live", "expired"}
    /\ calledExpired = FALSE
    /\ proc = "none"
    /\ err = "none"
    /\ op = "none"
    /\ IdleProjects
    /\ IdleContainers
    /\ IdleInspect
    /\ IdleUI
    /\ projectPath \in ProjectPaths
    /\ composeContent \in Declarations
    /\ (projectPath.readOk \/ composeContent = NoDeclaration)
    /\ composePath = Empty
    /\ services = <<>>
    /\ svcTrace = <<>>

NextServices ==
    \/ ListComposeServices_Call
    \/ ListComposeServices_Parse
    \/ ListComposeServices_ConfigExit
    \/ CtxExpire

SpecServices == InitServices /\ [][NextServices]_vars

(***************************************************************************)
(* views.ComposeInspect: the service list it builds from the file.         *)
(***************************************************************************)
HasSuffix(s, suffix) ==
    Len(suffix) <= Len(s) /\ SubSeq(s, Len(s) - Len(suffix) + 1, Len(s)) = suffix

TrimPrefix(s, prefix) ==
    IF HasPrefix(s, prefix) THEN SubSeq(s, Len(prefix) + 1, Len(s)) ELSE s

TrimSuffix(s, suffix) ==
    IF HasSuffix(s, suffix) THEN SubSeq(s, 1, Len(s) - Len(suffix)) ELSE s

\* one service as a declaration file writes it
DeclaredService(name, image, environment, ports) ==
    [name |-> name, image |-> image, environment |-> environment, ports |-> ports]

DeclaredServices ==
    { DeclaredService(nWeb, imgNginx, <<>>, <<port8080>>),
      DeclaredService(nDb, imgPostgres, <<>>, <<>>),
      DeclaredService(nApi, Empty, <<<<"P", "O", "R", "T", "=", "3", "0", "0", "0">>>>, <<port443, port8080>>),
      DeclaredService(<<"c", "a", "c", "h", "e">>, Empty, <<>>, <<<<"$", "{", "P", "O", "R", "T", "}", ":", "6", "3", "7", "9">>>>) }

\* the files: the services in the order written (distinct names), the
\* indentation width, another top-level key after or before the services, and
\* whether the file can be read
DeclarationFiles ==
    {[entries |-> es, width |-> w, extra |-> x, readOk |-> ok] :
        es \in {e \in SeqsUpTo(DeclaredServices, MaxSvcs) :
                   \A i, j \in 1..Len(e) : i # j => e[i].name # e[j].name},
        w \in {2, 4}, x \in {"none", "volumes", "extension"}, ok \in {TRUE}}
  \cup {NoFile}

Spaces(n) == [i \in 1..n |-> " "]

RECURSIVE ListItemLines(_, _)
ListItemLines(items, depth) ==
    IF items = <<>> THEN <<>>
    ELSE <<Spaces(depth) \o <<"-", " ">> \o Head(items)>> \o ListItemLines(Tail(items), depth)

\* the lines of one service, its name at depth w
ServiceLines(e, w) ==
    <<Spaces(w) \o e.name \o <<":">>>>
    \o (IF e.image # Empty THEN <<Spaces(2 * w) \o <<"i", "m", "a", "g", "e", ":", " ">> \o e.image>> ELSE <<>>)
    \o (IF e.environment # <<>>
        THEN <<Spaces(2 * w) \o <<"e", "n", "v", "i", "r", "o", "n", "m", "e", "n", "t", ":">>>> \o ListItemLines(e.environment, 3 * w)
        ELSE <<>>)
    \o (IF e.ports # <<>>
        THEN <<Spaces(2 * w) \o <<"p", "o", "r", "t", "s", ":">>>> \o ListItemLines(e.ports, 3 * w)
        ELSE <<>>)

RECURSIVE ServicesLines(_, _)
ServicesLines(es, w) ==
    IF es = <<>> THEN <<>> ELSE ServiceLines(Head(es), w) \o ServicesLines(Tail(es), w)

\* the bytes of the file, line by line
FileLines(d) ==
    (IF d.extra = "extension"
     THEN <<<<"x", "-", "m", "e", "t", "a", ":">>, Spaces(d.width) \o <<"s", "e", "r", "v", "i", "c", "e", "s", ":">>, Spaces(2 * d.width) \o <<"f", "a", "k", "e", ":">>>>
     ELSE <<>>)
    \o <<<<"s", "e", "r", "v", "i", "c", "e", "s", ":">>>> \o ServicesLines(d.entries, d.width)
    \o (IF d.extra = "volumes" THEN <<<<"v", "o", "l", "u", "m", "e", "s", ":">>, Spaces(d.width) \o <<"d", "a", "t", "a", ":">>>> ELSE <<>>)
    \o <<Empty>>

\* os.ReadFile, lines 1744-1750
ReadFile(d) == IF d.readOk THEN Join(FileLines(d), NL) ELSE Empty

\* lines 1840-1849: a space counts 1, a tab 4
RECURSIVE Indent(_)
Indent(line) ==
    IF line = <<>> THEN 0
    ELSE IF Head(line) = " " THEN 1 + Indent(Tail(line))
    ELSE IF Head(line) = "\t" THEN 4 + Indent(Tail(line))
    ELSE 0

\* lines 1835, 1889
Skipped(line) == TrimSpace(line) = Empty \/ HasPrefix(TrimSpace(line), <<"#">>)

\* lines 1833-1874, from line i on
RECURSIVE FirstPassFrom(_, _, _, _, _)
FirstPassFrom(lines, i, inServices, servicesIndent, entries) ==
    IF i > Len(lines) THEN entries
    ELSE LET line == lines[i]
             trimmedLine == TrimSpace(line)
             indent == Indent(line)
         IN  IF Skipped(line)
             THEN FirstPassFrom(lines, i + 1, inServices, servicesIndent, entries)
             ELSE IF HasPrefix(trimmedLine, <<"s", "e", "r", "v", "i", "c", "e", "s", ":">>)
             THEN FirstPassFrom(lines, i + 1, TRUE, indent, entries)
             ELSE IF ~inServices \/ indent <= servicesIndent
             THEN FirstPassFrom(lines, i + 1, inServices /\ indent > servicesIndent,
                                servicesIndent, entries)
             ELSE IF indent = servicesIndent + 2 /\ HasSuffix(trimmedLine, <<":">>)
             THEN FirstPassFrom(lines, i + 1, inServices, servicesIndent,
                                entries \cup {TrimSuffix(trimmedLine, <<":">>)})
             ELSE FirstPassFrom(lines, i + 1, inServices, servicesIndent, entries)

\* lines 1826-1874
ServiceEntriesOf(content) == FirstPassFrom(Split(content, NL), 1, FALSE, 0, {})

\* lines 1887-1941, from line i on
RECURSIVE SecondPassFrom(_, _, _, _, _)
SecondPassFrom(lines, i, inServiceDef, serviceIndent, service) ==
    IF i > Len(lines) THEN service
    ELSE LET line == lines[i]
             trimmedLine == TrimSpace(line)
             indent == Indent(line)
         IN  IF Skipped(line)
             THEN SecondPassFrom(lines, i + 1, inServiceDef, serviceIndent, service)
             ELSE IF ~inServiceDef /\ HasPrefix(trimmedLine, service.Name \o <<":">>)
             THEN SecondPassFrom(lines, i + 1, TRUE, indent, service)
             ELSE IF ~inServiceDef
             THEN SecondPassFrom(lines, i + 1, inServiceDef, serviceIndent, service)
             ELSE IF indent <= serviceIndent
             THEN SecondPassFrom(lines, i + 1, FALSE, serviceIndent, service)
             ELSE IF indent = serviceIndent + 2 /\ HasPrefix(trimmedLine, <<"i", "m", "a", "g", "e", ":">>)
             THEN SecondPassFrom(lines, i + 1, inServiceDef, serviceIndent,
                      [service EXCEPT !.Image = TrimSpace(TrimPrefix(trimmedLine, <<"i", "m", "a", "g", "e", ":">>))])
             ELSE IF /\ indent > serviceIndent + 2
                     /\ HasPrefix(trimmedLine, <<"-", " ">>)
                     /\ Contains(ToLower(line), <<"p", "o", "r", "t">>)
             THEN SecondPassFrom(lines, i + 1, inServiceDef, serviceIndent,
                      [service EXCEPT !.Ports =
                          Append(@, TrimSpace(TrimPrefix(trimmedLine, <<"-", " ">>)))])
             ELSE SecondPassFrom(lines, i + 1, inServiceDef, serviceIndent, service)

\* lines 1878-1941
ServiceOf(content, serviceName) ==
    SecondPassFrom(Split(content, NL), 1, FALSE, 0, ComposeServiceInfo(serviceName, Empty, <<>>))

\* the names of the records built so far
Scanned == {tmpComposeServices[k].Name : k \in 1..Len(tmpComposeServices)}

\* lines 1708-1750 and 1823: nothing is built while the services load; else
\* the file at the selected path is read
ComposeInspect_Call ==
    /\ pc = "idle"
    /\ \E composeServicesLoading \in BOOLEAN :
          IF composeServicesLoading
          THEN /\ op' = "inspect loading"
               /\ pc' = "done"
               /\ UNCHANGED <<composeFileContent, tmpComposeServices>>
          ELSE /\ op' = "inspect"
               /\ pc' = "ci_first"
               /\ composeFileContent' = ReadFile(declaration)
               /\ tmpComposeServices' = composeServices
    /\ calledExpired' = (ctx = "expired")
    /\ UNCHANGED <<ctx, proc, err, declaration, composeServices, serviceEntries>>
    /\ UNCHANGED projVars
    /\ UNCHANGED contVars
    /\ UNCHANGED svcVars
    /\ UNCHANGED uiVars

\* lines 1824-1874: the first pass, when no service was handed in
ComposeInspect_FirstPass ==
    /\ pc = "ci_first"
    /\ serviceEntries' = IF composeFileContent # Empty /\ Len(tmpComposeServices) = 0
                         THEN ServiceEntriesOf(composeFileContent) ELSE {}
    /\ pc' = "ci_second"
    /\ UNCHANGED <<ctx, calledExpired, proc, err, op, declaration, composeFileContent,
                   composeServices, tmpComposeServices>>
    /\ UNCHANGED projVars
    /\ UNCHANGED contVars
    /\ UNCHANGED svcVars
    /\ UNCHANGED uiVars

\* lines 1876-1945, one turn of `range serviceEntries`
ComposeInspect_Service ==
    /\ pc = "ci_second"
    /\ \E serviceName \in serviceEntries \ Scanned :
          tmpComposeServices' = Append(tmpComposeServices, ServiceOf(composeFileContent, serviceName))
    /\ UNCHANGED <<pc, ctx, calledExpired, proc, err, op, declaration, composeFileContent,
                   composeServices, serviceEntries>>
    /\ UNCHANGED projVars
    /\ UNCHANGED contVars
    /\ UNCHANGED svcVars
    /\ UNCHANGED uiVars

\* lines 1948-1957: the loop is over, the list is rendered
ComposeInspect_Render ==
    /\ pc = "ci_second"
    /\ serviceEntries \ Scanned = {}
    /\ pc' = "done"
    /\ UNCHANGED <<ctx, calledExpired, proc, err, op>>
    /\ UNCHANGED inspVars
    /\ UNCHANGED projVars
    /\ UNCHANGED contVars
    /\ UNCHANGED svcVars
    /\ UNCHANGED uiVars

InitInspect ==
    /\ pc = "idle"
    /\ ctx \in {"live", "expired"}
    /\ calledExpired = FALSE
    /\ proc = "none"
    /\ err = "none"
    /\ op = "none"
    /\ IdleProjects
    /\ IdleContainers
    /\ IdleServices
    /\ IdleUI
    /\ declaration \in DeclarationFiles
    /\ composeFileContent = Empty
    /\ composeServices \in {<<>>, <<ComposeServiceInfo(nWeb, imgNginx, <<port8080>>)>>}
    /\ serviceEntries = {}
    /\ tmpComposeServices = <<>>

NextInspect ==
    \/ ComposeInspect_Call
    \/ ComposeInspect_FirstPass
    \/ ComposeInspect_Service
    \/ ComposeInspect_Render
    \/ CtxExpire

SpecInspect == InitInspect /\ [][NextInspect]_vars

(***************************************************************************)
(* The interface layer: ui.FullModel under the Bubble Tea runtime          *)
(* (internal/ui/fullmodel.go and the event listener of package ui).        *)
(*                                                                         *)
(* The runtime holds one FullModel value `m`. It calls Update with one     *)
(* message at a time, replaces `m` by the model Update returns and starts  *)
(* every command Update returns in a goroutine of its own; what a command  *)
(* returns is sent back as a message. A command is a method value or a     *)
(* closure over the copy of the model that Update held, so it reads the    *)
(* fields as they were when it was issued.                                 *)
(*                                                                         *)
(* Fields that only View reads (loading, err, showHelp, width, height, the *)
(* spinner, the texts logContent, inspectContent, statsContent) are left   *)
(* out; the                                                                *)
(* viewport is the kind of content it was given last; statusMsg is         *)
(* "prompt" for the one text that Update compares it with, else "other".   *)
(***************************************************************************)
MaxCopies == 2      \* copies of one command running at a time

DefaultFullKeyMap ==
    [Quit |-> {"q", "ctrl+c"}, Help |-> {"?"}, Refresh |-> {"r"},
     Up |-> {"up", "k"}, Down |-> {"down", "j"},
     PageUp |-> {"pgup"}, PageDown |-> {"pgdown"},
     GoToTop |-> {"home"}, GoToBottom |-> {"end"},
     NextTab |-> {"tab", "right"}, PrevTab |-> {"shift+tab", "left"},
     Inspect |-> {"i", "enter"}, Logs |-> {"l"}, Monitor |-> {"m"}, Back |-> {"esc"},
     Start |-> {"s"}, Stop |-> {"S"}, Restart |-> {"R"}, Pause |-> {"p"},
     Resume |-> {"u"}, Kill |-> {"K"}, Remove |-> {"delete"},
     ComposeUp |-> {"u"}, ComposeDown |-> {"d"}, ComposePull |-> {"p"}]

Matches(k, binding) == k \in binding

\* the keys of a user who works with the resources, and those of one who
\* watches a container
Keys == {"tab", "shift+tab", "esc", "i", "l", "m", "s", "K", "delete", "d", "c", "1"}
WatchKeys == {"m", "esc", "q"}

Digits == [c \in {"1", "2", "3", "4", "5", "6", "7", "8", "9"} |->
             CASE c = "1" -> 1 [] c = "2" -> 2 [] c = "3" -> 3 [] c = "4" -> 4 [] c = "5" -> 5
               [] c = "6" -> 6 [] c = "7" -> 7 [] c = "8" -> 8 [] c = "9" -> 9]

(***************************************************************************)
(* What the daemon and the compose discovery can answer.                   *)
(***************************************************************************)
nImage == <<"n", "g", "i", "n", "x", ":", "1">>
nVolume == <<"d", "a", "t", "a">>
nNetwork == <<"b", "r", "i", "d", "g", "e">>

uiWeb == ContainerInfo(idA, nWeb)
uiImage == ContainerInfo(idC, nImage)
uiVolume == ContainerInfo(nVolume, nVolume)
uiNetwork == ContainerInfo(idD, nNetwork)
uiProject == ComposeInfo(nMyapp, pathDir, Running)
uiPathless == ComposeInfo(nTest, Empty, Running)

ContainerLists == {<<uiWeb>>}
ProjectLists == {<<uiProject>>, <<uiPathless>>}
\* views.FetchComposeContainers / views.ComposeInspect: a container of the
\* main list under its short identifier, or one the main list does not hold
ComposeContainerLists == {<<>>, <<ContainerInfo(ShortID(idA), nWeb)>>}

(***************************************************************************)
(* Commands. Each carries the fields of the model copy that it reads.      *)
(***************************************************************************)
NoCmd == [name |-> "nil", action |-> "", tab |-> ContainersTab, id |-> Empty,
          project |-> Empty, path |-> Empty, connected |-> TRUE]

checkDockerConnection == [NoCmd EXCEPT !.name = "checkDockerConnection"]
startConnectionCheck == [NoCmd EXCEPT !.name = "startConnectionCheck"]
fetchContainers(mm) == [NoCmd EXCEPT !.name = "fetchContainers", !.connected = mm.dockerConnected]
fetchImages == [NoCmd EXCEPT !.name = "fetchImages"]
fetchVolumes == [NoCmd EXCEPT !.name = "fetchVolumes"]
fetchNetworks == [NoCmd EXCEPT !.name = "fetchNetworks"]
fetchComposeProjects(mm) == [NoCmd EXCEPT !.name = "fetchComposeProjects", !.connected = mm.dockerConnected]
fetchLogs(mm) == [NoCmd EXCEPT !.name = "fetchLogs", !.id = mm.selectedID]
fetchStats(mm) == [NoCmd EXCEPT !.name = "fetchStats", !.id = mm.selectedID]
startStatsRefresh == [NoCmd EXCEPT !.name = "startStatsRefresh"]
inspectResource(mm) == [NoCmd EXCEPT !.name = "inspectResource", !.id = mm.selectedID, !.tab = mm.currentTab]
fetchComposeServices(mm) ==
    [NoCmd EXCEPT !.name = "fetchComposeServices", !.project = mm.selectedName, !.path = mm.selectedPath]
fetchComposeContainers(mm) == [NoCmd EXCEPT !.name = "fetchComposeContainers", !.project = mm.selectedName]
composeAction(mm, action) ==
    [NoCmd EXCEPT !.name = "composeAction", !.action = action, !.path = mm.selectedPath]
ResourceAction(name, mm, action) == [NoCmd EXCEPT !.name = name, !.action = action, !.id = mm.selectedID]
containerAction(mm, action) == ResourceAction("containerAction", mm, action)
imageAction(mm, action) == ResourceAction("imageAction", mm, action)
volumeAction(mm, action) == ResourceAction("volumeAction", mm, action)
networkAction(mm, action) == ResourceAction("networkAction", mm, action)
afterAction(action) == [NoCmd EXCEPT !.name = "afterAction", !.action = action]
Quit == [NoCmd EXCEPT !.name = "tea.Quit"]

\* inspectComposeProject, lines 578-592: the path the command ends up with.
\* It looks the path up in the projects of its own copy of the model.
RECURSIVE PathOfNamed(_, _)
PathOfNamed(ps, name) ==
    IF ps = <<>> THEN Empty
    ELSE IF Head(ps).Name = name THEN Head(ps).Path
    ELSE PathOfNamed(Tail(ps), name)

inspectComposeProject(mm) ==
    [NoCmd EXCEPT !.name = "inspectComposeProject", !.project = mm.selectedName,
                  !.path = IF mm.selectedPath = Empty
                           THEN PathOfNamed(mm.composeProjects, mm.selectedName)
                           ELSE mm.selectedPath]

(***************************************************************************)
(* Messages.                                                               *)
(***************************************************************************)
KeyMsg(k) == [NoMsg EXCEPT !.type = "tea.KeyMsg", !.key = k]
ListMsg(type, items) == [NoMsg EXCEPT !.type = type, !.items = items]
Plain(type) == [NoMsg EXCEPT !.type = type]
fullActionResultMsg(success, action) ==
    [NoMsg EXCEPT !.type = "fullActionResultMsg", !.success = success, !.action = action]
afterActionMsg(action) == [NoMsg EXCEPT !.type = "afterActionMsg", !.action = action]
dockerConnectionMsg(connected) == [NoMsg EXCEPT !.type = "dockerConnectionMsg", !.connected = connected]
ProjectMsg(type, items, name) == [NoMsg EXCEPT !.type = type, !.items = items, !.projectName = name]
DockerEventMsg(type, id) == [NoMsg EXCEPT !.type = "DockerEventMsg", !.eventType = type, !.id = id]
\* the value tea.Batch returns, a command, sent as a message
CmdValue(cmds) == [NoMsg EXCEPT !.type = "tea.Cmd", !.cmds = cmds]

ActionResults(selected, action) ==
    IF selected = Empty THEN {fullActionResultMsg(FALSE, "")}
    ELSE {fullActionResultMsg(FALSE, ""), fullActionResultMsg(TRUE, action)}

\* what running command c can send back, `pings` being what a ping of the
\* daemon can answer
Results(c, pings) ==
    CASE c.name = "checkDockerConnection" -> {dockerConnectionMsg(b) : b \in pings}
      [] c.name = "startConnectionCheck" -> {Plain("connectionCheckTickMsg")}
      [] c.name = "fetchContainers" ->
            IF ~c.connected THEN {ListMsg("fullContainersMsg", <<>>)}
            ELSE {ListMsg("fullContainersMsg", l) : l \in ContainerLists} \cup {Plain("fullErrMsg")}
      \* the error of a listing is that of the container listing
      [] c.name = "fetchImages" -> {ListMsg("fullImagesMsg", <<uiImage>>)}
      [] c.name = "fetchVolumes" -> {ListMsg("fullVolumesMsg", <<uiVolume>>)}
      [] c.name = "fetchNetworks" -> {ListMsg("fullNetworksMsg", <<uiNetwork>>)}
      [] c.name = "fetchComposeProjects" ->
            IF ~c.connected THEN {ListMsg("composeProjectsMsg", <<>>)}
            ELSE {ListMsg("composeProjectsMsg", l) : l \in ProjectLists} \cup {Plain("fullErrMsg")}
      [] c.name = "fetchLogs" ->
            IF c.id = Empty THEN {Plain("fullLogsMsg")} ELSE {Plain("fullLogsMsg"), Plain("fullErrMsg")}
      [] c.name = "fetchStats" ->
            IF c.id = Empty THEN {Plain("fullStatsMsg")} ELSE {Plain("fullStatsMsg"), Plain("fullErrMsg")}
      [] c.name = "startStatsRefresh" -> {Plain("tickMsg")}
      [] c.name = "inspectResource" ->
            IF c.id = Empty THEN {Plain("fullInspectMsg")} ELSE {Plain("fullInspectMsg"), Plain("fullErrMsg")}
      [] c.name = "inspectComposeProject" ->
            IF c.path = Empty THEN {Plain("fullInspectMsg")}
            ELSE LET mm == [selectedName |-> c.project, selectedPath |-> c.path]
                 IN {CmdValue(<<fetchComposeServices(mm), fetchComposeContainers(mm)>>)}
      [] c.name = "fetchComposeServices" ->
            {ProjectMsg("fullComposeServicesMsg", <<>>, c.project),
             ProjectMsg("fullComposeServicesMsg", <<nWeb>>, c.project)}
      [] c.name = "fetchComposeContainers" ->
            {ProjectMsg("fullComposeContainersMsg", l, c.project) : l \in ComposeContainerLists}
      [] c.name = "composeAction" ->
            IF c.path = Empty THEN {fullActionResultMsg(FALSE, "")}
            ELSE IF c.action = "logs" THEN {Plain("fullLogsMsg"), fullActionResultMsg(FALSE, "")}
            ELSE {fullActionResultMsg(FALSE, ""), fullActionResultMsg(TRUE, c.action)}
      [] c.name \in {"containerAction", "imageAction", "volumeAction", "networkAction"} ->
            ActionResults(c.id, c.action)
      [] c.name = "afterAction" -> {afterActionMsg(c.action)}
      [] c.name = "tea.Quit" -> {Plain("tea.QuitMsg")}

(***************************************************************************)
(* Helpers of Update.                                                      *)
(***************************************************************************)
R(mm, cmds) == [m |-> mm, cmds |-> cmds]

Status(mm, s) == [mm EXCEPT !.statusMsg = s]

\* table.SelectedRow: nil when the cursor is outside the rows
SelectedRow(t) == IF t.cursor < 0 \/ t.cursor >= t.rows THEN 0 ELSE t.cursor + 1

\* table.SetRows
SetRows(mm, tab, items) == [mm EXCEPT !.tables[tab] = Table(Len(items), @.cursor)]

\* table.SetCursor, table.MoveUp, table.MoveDown keep the cursor inside the rows
Clamp(v, low, high) == IF v < low THEN low ELSE IF v > high THEN high ELSE v

SetCursor(t, n) == Table(t.rows, Clamp(n, 0, IF t.rows = 0 THEN 0 ELSE t.rows - 1))

\* table.Update: the line keys move the cursor by one; the library's page
\* keys move it further and stop at the same ends
TableUpdate(t, k) ==
    IF Matches(k, DefaultFullKeyMap.Down) THEN SetCursor(t, t.cursor + 1)
    ELSE IF Matches(k, DefaultFullKeyMap.Up) THEN SetCursor(t, t.cursor - 1)
    ELSE t

RECURSIVE FirstWithPath(_)
FirstWithPath(ps) ==
    IF ps = <<>> THEN Empty
    ELSE IF Head(ps).Path # Empty THEN Head(ps).Path
    ELSE FirstWithPath(Tail(ps))

\* lines 1004-1023 and 1181-1200: the path of the first project of one of
\* these names, else the path of the first project that has one
FallbackPath(mm, names) ==
    LET named == SelectSeq(mm.composeProjects, LAMBDA p : p.Name \in names)
        a == IF named = <<>> THEN mm
             ELSE [mm EXCEPT !.selectedPath = Head(named).Path, !.statusMsg = "other"]
    IN IF a.selectedPath = Empty /\ FirstWithPath(a.composeProjects) # Empty
       THEN [a EXCEPT !.selectedPath = FirstWithPath(a.composeProjects), !.statusMsg = "other"]
       ELSE a

updateSelection(mm) ==
    LET t == mm.tables[IF mm.currentTab \in ContainersTab..ComposeTab THEN mm.currentTab ELSE ContainersTab]
        row == SelectedRow(t)
        list == CASE mm.currentTab = ContainersTab -> mm.containers
                  [] mm.currentTab = ImagesTab -> mm.images
                  [] mm.currentTab = VolumesTab -> mm.volumes
                  [] mm.currentTab = NetworksTab -> mm.networks
                  [] mm.currentTab = ComposeTab -> mm.composeProjects
                  [] OTHER -> <<>>
    IN IF row = 0
       THEN [mm EXCEPT !.selectedID = Empty, !.selectedName = Empty, !.selectedPath = Empty]
       ELSE IF ~(Len(list) > 0 /\ t.cursor < Len(list)) THEN mm
       ELSE IF mm.currentTab = ComposeTab
       THEN LET p == list[row]
                s == [mm EXCEPT !.selectedID = p.Name, !.selectedName = p.Name, !.selectedPath = p.Path]
            IN IF s.selectedPath = Empty /\ s.selectedID # Empty
               THEN FallbackPath(s, {s.selectedID})
               ELSE s
       ELSE [mm EXCEPT !.selectedID = list[row].ID, !.selectedName = list[row].Name]

\* renderComposeInspect: views.ComposeInspect may hand back the containers
\* it found itself; they are kept when the model has none
renderComposeInspect(mm, updatedContainers) ==
    IF Len(updatedContainers) > 0 /\ Len(mm.composeContainers) = 0
    THEN Status([mm EXCEPT !.composeContainers = updatedContainers, !.viewport = "compose"], "other")
    ELSE [mm EXCEPT !.viewport = "compose"]

\* the 0-based index of the first element that satisfies Test, or -1
IndexWhere(s, Test(_)) ==
    LET hits == {i \in 1..Len(s) : Test(s[i])}
    IN IF hits = {} THEN -1 ELSE (CHOOSE i \in hits : \A j \in hits : i <= j) - 1

jumpToContainer(mm, id, listing) ==
    LET a == [mm EXCEPT !.containers = IF listing.err THEN @ ELSE listing.containers,
                        !.currentTab = ContainersTab,
                        !.currentMode = ListMode]
        byID == IndexWhere(a.containers, LAMBDA c : HasPrefix(c.ID, id))
        k == IndexWhere(a.composeContainers, LAMBDA c : HasPrefix(c.ID, id))
        full == IF k < 0 THEN Empty ELSE a.composeContainers[k + 1].Name
        cut == Index(full, <<" ", "(">>)
        containerName == IF cut > 0 THEN SubSeq(full, 1, cut) ELSE full
        byName == IF byID = -1 /\ Len(a.composeContainers) > 0 /\ containerName # Empty
                  THEN IndexWhere(a.containers,
                                  LAMBDA c : TrimPrefix(c.Name, <<"/">>) = containerName)
                  ELSE byID
        foundIndex == IF byName = -1
                      THEN IndexWhere(a.containers,
                                      LAMBDA c : /\ Len(id) >= 6
                                                 /\ Len(c.ID) >= 6
                                                 /\ EqualFold(SubSeq(c.ID, 1, 6), SubSeq(id, 1, 6)))
                      ELSE byName
    IN IF foundIndex >= 0
       THEN Status(updateSelection(
                [a EXCEPT !.tables[ContainersTab] = SetCursor(@, foundIndex)]), "other")
       ELSE Status(a, "other")

\* the fetch of the list a tab shows (the switches of lines 1074-1085, 1118-1129, 1625-1638)
TabFetchContainers(mm, default) == <<fetchContainers(mm)>>

TabFetch(mm, default) ==
    CASE mm.currentTab = ContainersTab -> <<fetchContainers(mm)>>
      [] mm.currentTab = ImagesTab -> <<fetchImages>>
      [] mm.currentTab = VolumesTab -> <<fetchVolumes>>
      [] mm.currentTab = NetworksTab -> <<fetchNetworks>>
      [] mm.currentTab = ComposeTab -> <<fetchComposeProjects(mm)>>
      [] OTHER -> default

RefreshAll(mm) ==
    <<fetchContainers(mm), fetchImages, fetchVolumes, fetchNetworks, fetchComposeProjects(mm)>>

(***************************************************************************)
(* Update, case tea.KeyMsg.                                                *)
(***************************************************************************)
NextTabKeySkips(mm) ==
    LET n == [mm EXCEPT !.currentTab = (mm.currentTab + 2) % 5]
    IN R(n, TabFetch(n, <<>>))

NextTabKey(mm) ==
    LET n == [mm EXCEPT !.currentTab = (mm.currentTab + 1) % 5]
    IN IF mm.currentTab # n.currentTab /\ n.currentTab \in ContainersTab..ComposeTab
       THEN R(n, TabFetch(n, <<>>))
       ELSE IF n.currentTab = ComposeTab
       THEN R(n, <<fetchComposeProjects(n)>>
                 \o IF n.currentMode = InspectMode /\ n.selectedPath # Empty
                    THEN <<fetchComposeServices(n)>> ELSE <<>>)
       ELSE R(n, <<>>)

PrevTabKey(mm) ==
    LET n == [mm EXCEPT !.currentTab = (mm.currentTab - 1 + 5) % 5]
    IN IF mm.currentTab # n.currentTab /\ n.currentTab \in ContainersTab..ComposeTab
       THEN R(n, TabFetch(n, <<>>))
       ELSE R(n, <<>>)

\* the selection the Logs key takes (lines 1215, 1219, 1348, 1352) and the one
\* the Monitor key takes (lines 1225, 1359)
HasLogsAnywhere(mm) == TRUE

HasLogs(mm) ==
    \/ mm.currentTab = ContainersTab /\ mm.selectedID # Empty
    \/ mm.currentTab = ComposeTab /\ mm.selectedPath # Empty

WatchableAnywhere(mm) == TRUE

Watchable(mm) == mm.currentTab = ContainersTab /\ mm.selectedID # Empty

TakesLogsOrMonitor(mm, k) ==
    \/ Matches(k, DefaultFullKeyMap.Logs) /\ HasLogs(mm)
    \/ Matches(k, DefaultFullKeyMap.Monitor) /\ Watchable(mm)

\* lines 1214-1233 and 1347-1367: the same in list mode and in inspect mode
LogsOrMonitor(mm, k) ==
    IF Matches(k, DefaultFullKeyMap.Logs) /\ HasLogs(mm)
    THEN R([mm EXCEPT !.currentMode = LogsMode],
           IF mm.currentTab = ContainersTab THEN <<fetchLogs(mm)>>
           ELSE <<composeAction(mm, "logs")>>)
    ELSE IF Matches(k, DefaultFullKeyMap.Monitor) /\ Watchable(mm)
    THEN R([mm EXCEPT !.currentMode = MonitorMode], <<fetchStats(mm), startStatsRefresh>>)
    ELSE R(mm, <<>>)

\* the action a key stands for on a tab, "" when it stands for none
\* (the switches of lines 1236-1269 and 1370-1463)
TabAction(tab, k) ==
    LET K == DefaultFullKeyMap
    IN CASE tab = ContainersTab /\ Matches(k, K.Start) -> "start"
         [] tab = ContainersTab /\ Matches(k, K.Stop) -> "stop"
         [] tab = ContainersTab /\ Matches(k, K.Restart) -> "restart"
         [] tab = ContainersTab /\ Matches(k, K.Pause) -> "pause"
         [] tab = ContainersTab /\ Matches(k, K.Resume) -> "unpause"
         [] tab = ContainersTab /\ Matches(k, K.Kill) -> "kill"
         [] tab \in {ContainersTab, ImagesTab, VolumesTab, NetworksTab} /\ Matches(k, K.Remove) -> "remove"
         [] OTHER -> ""

ActionCmd(mm, action) ==
    CASE mm.currentTab = ContainersTab -> containerAction(mm, action)
      [] mm.currentTab = ImagesTab -> imageAction(mm, action)
      [] mm.currentTab = VolumesTab -> volumeAction(mm, action)
      [] mm.currentTab = NetworksTab -> networkAction(mm, action)

\* the compose action a key stands for (lines 1161-1168 and 1318-1343)
ComposeKey(k) ==
    LET K == DefaultFullKeyMap
    IN IF Matches(k, K.ComposeUp) THEN "up"
       ELSE IF Matches(k, K.ComposeDown) THEN "down"
       ELSE IF Matches(k, K.ComposePull) THEN "pull"
       ELSE ""

\* lines 1155-1276
ListModeKey(mm, k, env) ==
    LET s == updateSelection(mm)
    IN IF s.currentTab = ComposeTab /\ ComposeKey(k) # ""
       THEN R(s, <<composeAction(s, ComposeKey(k))>>)
       ELSE IF Matches(k, DefaultFullKeyMap.Inspect) /\ s.selectedID # Empty
       THEN LET i == [s EXCEPT !.currentMode = InspectMode]
            IN IF i.currentTab = ComposeTab
               THEN LET u == updateSelection(i)
                        f == IF u.selectedPath = Empty /\ u.selectedID # Empty
                                /\ Len(u.composeProjects) > 0
                             THEN FallbackPath(u, {u.selectedID, u.selectedName})
                             ELSE u
                        r == renderComposeInspect(f, env.updatedContainers)
                    IN R(r, <<inspectComposeProject(r)>>)
               ELSE R(i, <<inspectResource(i)>>)
       ELSE IF TakesLogsOrMonitor(s, k) THEN LogsOrMonitor(s, k)
       ELSE IF TabAction(s.currentTab, k) # ""
       THEN R(s, <<ActionCmd(s, TabAction(s.currentTab, k))>>)
       ELSE IF s.tablesReady
       THEN R([s EXCEPT !.tables[s.currentTab] = TableUpdate(@, k)], <<>>)
       ELSE R(s, <<>>)

\* what follows an action taken in inspect mode (lines 1373-1462)
AfterOf(action) == IF action \in {"kill", "remove"} THEN "list" ELSE "inspect"

\* lines 1277-1470
InspectModeKey(mm, k, env) ==
    LET prompted == mm.currentTab = ComposeTab /\ mm.statusMsg = "prompt"
        digit == k \in DOMAIN Digits
        \* lines 1313-1314: any other key cancels the selection
        c == IF prompted THEN Status(mm, "other") ELSE mm
    IN IF mm.currentTab = ComposeTab /\ k = "c"
       THEN R(Status(mm, "prompt"), <<>>)
       ELSE IF prompted /\ digit /\ Digits[k] <= Len(mm.composeContainers)
       THEN R(jumpToContainer(Status(mm, "other"), mm.composeContainers[Digits[k]].ID, env.listing), <<>>)
       ELSE IF prompted /\ digit
       THEN R(Status(mm, "other"), <<>>)
       ELSE IF c.currentTab = ComposeTab /\ ComposeKey(k) # ""
       THEN R(Status(c, "other"), <<composeAction(c, ComposeKey(k)), afterAction("inspect")>>)
       ELSE IF TakesLogsOrMonitor(c, k) THEN LogsOrMonitor(c, k)
       ELSE IF TabAction(c.currentTab, k) # ""
       THEN LET a == Status(c, "other")
            IN R(a, <<ActionCmd(a, TabAction(c.currentTab, k)), afterAction(AfterOf(TabAction(c.currentTab, k)))>>)
       ELSE R(c, <<>>)

\* lines 1142-1152: stopStatsRefresh returns an empty batch
BackClearsSelection(mm) ==
    R([mm EXCEPT !.currentMode = ListMode, !.selectedID = Empty, !.selectedName = Empty,
                 !.selectedPath = Empty], <<>>)

Back(mm) == R([mm EXCEPT !.currentMode = ListMode], <<>>)

\* lines 1034-1486
UpdateKey(mm, k, env) ==
    LET K == DefaultFullKeyMap
    IN IF Matches(k, K.Quit) THEN R(Status(mm, "other"), <<Quit>>)
       ELSE IF Matches(k, K.Help) THEN R(mm, <<>>)
       ELSE IF Matches(k, K.Refresh)
       THEN IF mm.currentMode = MonitorMode THEN R(mm, <<fetchStats(mm)>>)
            ELSE IF mm.currentMode = InspectMode
            THEN IF mm.currentTab = ComposeTab THEN R(mm, <<inspectComposeProject(mm)>>)
                 ELSE R(mm, <<inspectResource(mm)>>)
            ELSE R(Status(mm, "other"), RefreshAll(mm))
       ELSE IF Matches(k, K.NextTab) /\ mm.currentMode = ListMode THEN NextTabKey(mm)
       ELSE IF Matches(k, K.PrevTab) /\ mm.currentMode = ListMode THEN PrevTabKey(mm)
       ELSE IF Matches(k, K.Back) /\ mm.currentMode # ListMode THEN Back(mm)
       ELSE IF mm.currentMode = ListMode THEN ListModeKey(mm, k, env)
       ELSE IF mm.currentMode = InspectMode THEN InspectModeKey(mm, k, env)
       ELSE R(mm, <<>>)

(***************************************************************************)
(* The event listener's handler (package ui, HandleDockerEvent).           *)
(***************************************************************************)
HandleDockerEvent(model, event) ==
    (CASE event.eventType = "container" -> <<fetchContainers(model)>>
       [] event.eventType = "image" -> <<fetchImages>>
       [] event.eventType = "volume" -> <<fetchVolumes>>
       [] event.eventType = "network" -> <<fetchNetworks>>
       [] OTHER -> <<>>)
    \o IF model.currentMode = MonitorMode /\ model.selectedID = event.id
       THEN <<fetchStats(model)>> ELSE <<>>

(***************************************************************************)
(* Update.                                                                 *)
(***************************************************************************)
\* lines 1652-1659
ConnectionUnchecked(mm, connected) == R([mm EXCEPT !.dockerConnected = connected], <<>>)

Connection(mm, connected) ==
    IF ~connected
    THEN R(Status([mm EXCEPT !.dockerConnected = FALSE], "other"), <<startConnectionCheck>>)
    ELSE R([mm EXCEPT !.dockerConnected = TRUE], <<>>)

\* lines 1488-1493
TickAlways(mm) == R(mm, <<fetchStats(mm), startStatsRefresh>>)

Tick(mm) ==
    IF mm.currentMode = MonitorMode THEN R(mm, <<fetchStats(mm), startStatsRefresh>>)
    ELSE R(mm, <<>>)

ListTab(type) ==
    CASE type = "fullContainersMsg" -> ContainersTab
      [] type = "fullImagesMsg" -> ImagesTab
      [] type = "fullVolumesMsg" -> VolumesTab
      [] type = "fullNetworksMsg" -> NetworksTab
      [] type = "composeProjectsMsg" -> ComposeTab

Loaded(mm, msg) ==
    LET l == CASE msg.type = "fullContainersMsg" -> [mm EXCEPT !.containers = msg.items]
               [] msg.type = "fullImagesMsg" -> [mm EXCEPT !.images = msg.items]
               [] msg.type = "fullVolumesMsg" -> [mm EXCEPT !.volumes = msg.items]
               [] msg.type = "fullNetworksMsg" -> [mm EXCEPT !.networks = msg.items]
               [] msg.type = "composeProjectsMsg" -> [mm EXCEPT !.composeProjects = msg.items]
    IN Status(SetRows(l, ListTab(msg.type), msg.items), "other")

Update(mm, msg, env) ==
    CASE msg.type = "tea.KeyMsg" -> UpdateKey(mm, msg.key, env)
      [] msg.type = "tickMsg" -> Tick(mm)
      [] msg.type = "tea.WindowSizeMsg" ->
            IF ~mm.tablesReady
            THEN R([mm EXCEPT !.tables = [t \in ContainersTab..ComposeTab |-> Table(0, 0)],
                              !.tablesReady = TRUE, !.viewport = "empty"], <<>>)
            ELSE R(mm, <<>>)
      [] msg.type \in {"fullContainersMsg", "fullImagesMsg", "fullVolumesMsg", "fullNetworksMsg",
                       "composeProjectsMsg"} -> R(Loaded(mm, msg), <<>>)
      [] msg.type = "fullLogsMsg" -> R(Status([mm EXCEPT !.viewport = "logs"], "other"), <<>>)
      [] msg.type = "fullInspectMsg" ->
            IF mm.currentTab = ComposeTab /\ mm.currentMode = InspectMode
            THEN R(Status(renderComposeInspect(mm, env.updatedContainers), "other"), <<>>)
            ELSE R(Status([mm EXCEPT !.viewport = "inspect"], "other"), <<>>)
      [] msg.type = "fullActionResultMsg" ->
            IF msg.success /\ msg.action # ""
            THEN R(Status(mm, "other"), TabFetch(mm, <<fetchContainers(mm)>>))
            ELSE R(Status(mm, "other"), <<>>)
      [] msg.type = "fullErrMsg" -> R(Status(mm, "other"), <<>>)
      [] msg.type = "fullStatsMsg" -> R(Status([mm EXCEPT !.viewport = "stats"], "other"), <<>>)
      [] msg.type = "dockerConnectionMsg" -> Connection(mm, msg.connected)
      [] msg.type = "connectionCheckTickMsg" -> R(mm, <<checkDockerConnection>>)
      [] msg.type = "afterActionMsg" ->
            IF msg.action = "inspect"
            THEN IF mm.currentTab = ComposeTab THEN R(mm, <<inspectComposeProject(mm)>>)
                 ELSE R(mm, <<inspectResource(mm)>>)
            ELSE IF msg.action = "list"
            THEN LET l == [mm EXCEPT !.currentMode = ListMode]
                 IN IF l.currentTab = ComposeTab THEN R(l, <<fetchComposeProjects(l)>>)
                    ELSE R(l, <<fetchContainers(l)>>)
            ELSE R(mm, <<>>)
      [] msg.type = "fullComposeServicesMsg" ->
            IF mm.currentMode = InspectMode /\ mm.currentTab = ComposeTab
            THEN R(renderComposeInspect(Status(mm, "other"), env.updatedContainers), <<>>)
            ELSE R(Status(mm, "other"), <<>>)
      [] msg.type = "fullComposeContainersMsg" ->
            LET c == Status([mm EXCEPT !.composeContainers = msg.items], "other")
            IN IF c.currentMode = InspectMode /\ c.currentTab = ComposeTab
               THEN R(renderComposeInspect(c, env.updatedContainers), <<>>)
               ELSE R(c, <<>>)
      \* no case of the switch: DockerEventMsg, ErrorMsg, a command sent as a message
      [] OTHER -> R(mm, <<>>)

(***************************************************************************)
(* The runtime.                                                            *)
(***************************************************************************)
\* what Update finds besides the message: the answers of the calls it makes itself
Envs ==
    {[updatedContainers |-> u, listing |-> l] :
        u \in ComposeContainerLists,
        l \in {[err |-> TRUE, containers |-> <<>>]}
              \cup {[err |-> FALSE, containers |-> cs] : cs \in ContainerLists}}

\* the calls Update makes itself while it handles msg in mm
EnvsOf(mm, msg) ==
    LET renders == \/ msg.type \in {"fullInspectMsg", "fullComposeServicesMsg", "fullComposeContainersMsg"}
                      /\ mm.currentTab = ComposeTab /\ mm.currentMode = InspectMode
                   \/ msg.type = "tea.KeyMsg" /\ Matches(msg.key, DefaultFullKeyMap.Inspect)
                      /\ mm.currentTab = ComposeTab /\ mm.currentMode = ListMode
        jumps == /\ msg.type = "tea.KeyMsg" /\ msg.key \in DOMAIN Digits
                 /\ mm.currentTab = ComposeTab /\ mm.currentMode = InspectMode
    IN {e \in Envs : /\ renders \/ e.updatedContainers = <<>>
                     /\ jumps \/ e.listing.err}

RECURSIVE BagOf(_)
BagOf(cmds) == IF cmds = <<>> THEN EmptyBag ELSE SetToBag({Head(cmds)}) (+) BagOf(Tail(cmds))

\* the commands in flight that are calls, not timers
Calls(bag) ==
    BagCardinality(bag) - CopiesIn(startStatsRefresh, bag) - CopiesIn(startConnectionCheck, bag)

\* the events the daemon reports
Events == {<<"container", idA>>, <<"container", idB>>, <<"image", idC>>,
           <<"volume", nVolume>>, <<"network", idD>>}

\* the compose messages still to come: an Inspect key press in list mode on
\* the Compose tab that finds a project with a path asks for both (lines
\* 1173-1212), and each is struck off when Update handles it (lines 1697-1747)
ComposeMsgs == {"fullComposeServicesMsg", "fullComposeContainersMsg"}

Awaited(mm, msg, after, waiting) ==
    IF /\ msg.type = "tea.KeyMsg" /\ Matches(msg.key, DefaultFullKeyMap.Inspect)
       /\ mm.currentMode = ListMode /\ mm.currentTab = ComposeTab
       /\ after.currentMode = InspectMode /\ after.selectedPath # Empty
    THEN ComposeMsgs
    ELSE waiting \ {msg.type}

\* the view a kill or remove was asked from in inspect mode (lines 1413-1462),
\* until the next key press, and whether its result was a failure
Origin(mm, msg, was) ==
    IF msg.type = "tea.KeyMsg"
    THEN IF mm.currentMode = InspectMode /\ TabAction(mm.currentTab, msg.key) \in {"kill", "remove"}
         THEN [state |-> "pending", tab |-> mm.currentTab, selection |-> Selection(mm)]
         ELSE NoOrigin
    ELSE IF msg.type = "fullActionResultMsg" /\ ~msg.success /\ was.state = "pending"
    THEN [was EXCEPT !.state = "failed"]
    ELSE was

\* the runtime calls Update with msg, having taken the commands `done` off its hands
Step(msg, done) ==
    \E env \in EnvsOf(m, msg) :
        LET r == Update(m, msg, env)
        IN /\ m' = r.m
           /\ issued' = r.cmds
           /\ handled' = Handled(msg)
           /\ awaited' = Awaited(m, msg, r.m, awaited)
           /\ origin' = Origin(m, msg, origin)
           /\ inflight' = (inflight (-) done) (+) BagOf(r.cmds)
           /\ \A c \in BagToSet(inflight') : CopiesIn(c, inflight') <= MaxCopies

UIFrame ==
    /\ UNCHANGED <<ctx, calledExpired, proc, err, op>>
    /\ UNCHANGED projVars
    /\ UNCHANGED contVars
    /\ UNCHANGED svcVars
    /\ UNCHANGED inspVars

\* the user presses one of `keys`, once the calls in flight have returned
\* (timers keep running)
PressKey(keys) ==
    /\ pc = "ui"
    /\ Calls(inflight) = 0
    /\ \E k \in keys : Step(KeyMsg(k), EmptyBag)
    /\ pc' = pc
    /\ UIFrame

\* the terminal reports its size
Resize ==
    /\ pc = "ui"
    /\ Step(Plain("tea.WindowSizeMsg"), EmptyBag)
    /\ pc' = pc
    /\ UIFrame

\* the command c returns and its message is handled; tea.Quit ends the program
DeliverCmd(c, pings) ==
    /\ pc = "ui"
    /\ c \in BagToSet(inflight)
    /\ \E msg \in Results(c, pings) :
          IF msg.type = "tea.QuitMsg"
          THEN /\ pc' = "quit"
               /\ inflight' = inflight (-) SetToBag({c})
               /\ UNCHANGED <<m, handled, issued, awaited, origin>>
          ELSE /\ pc' = pc
               /\ Step(msg, SetToBag({c}))
    /\ UIFrame

\* the commands run concurrently: any of them may be the next to return
Deliver(pings) == \E c \in BagToSet(inflight) : DeliverCmd(c, pings)

\* SetupEventListener: the daemon reports an event and the listener sends it
DockerEvent ==
    /\ pc = "ui"
    /\ \E e \in Events : Step(DockerEventMsg(e[1], e[2]), EmptyBag)
    /\ pc' = pc
    /\ UIFrame

NoEnv == [updatedContainers |-> <<>>, listing |-> [err |-> TRUE, containers |-> <<>>]]

\* FullModel.Init
InitBatch == <<checkDockerConnection>> \o RefreshAll(NewFullModel)

Started(model) ==
    /\ pc = "ui"
    /\ ctx = "live"
    /\ calledExpired = FALSE
    /\ proc = "none"
    /\ err = "none"
    /\ op = "none"
    /\ IdleProjects
    /\ IdleContainers
    /\ IdleServices
    /\ IdleInspect
    /\ m = model
    /\ inflight = BagOf(InitBatch)
    /\ handled = NoneHandled
    /\ issued = InitBatch
    /\ awaited = {}
    /\ origin = NoOrigin

\* a user at work: the terminal has reported its size, the daemon answers
InitUI == Started(Update(NewFullModel, Plain("tea.WindowSizeMsg"), NoEnv).m)

NextUI ==
    \/ PressKey(Keys)
    \/ Deliver({TRUE})

SpecUI == InitUI /\ [][NextUI]_vars

\* tea.Tick fires its message once the two seconds are over
SpecUITimed == SpecUI /\ WF_vars(DeliverCmd(startStatsRefresh, {TRUE}))

\* a user who watches a container while the daemon comes and goes and
\* reports events
InitWatch == Started(NewFullModel)

NextWatch ==
    \/ PressKey(WatchKeys)
    \/ Resize
    \/ Deliver(BOOLEAN)
    \/ DockerEvent

SpecWatch == InitWatch /\ [][NextWatch]_vars

(***************************************************************************)
(* The claims.                                                             *)
(***************************************************************************)
Returned == pc = "done" /\ err = "none"

StrategyRank(s) ==
    CASE s = "label" -> 1 [] s = "first" -> 1 [] s = "alt" -> 2
      [] s = "lower" -> 3 [] s = "tool" -> 4 [] s = "deep" -> 5

\* C1: in ListComposeContainers and FetchComposeContainers the strategies run
\* in their written order; a strategy runs (and the tool is started) only
\* while every strategy before it returned no container; the output of the
\* strategy that yields a container is the result.
C1_FallbackOnlyAfterZero ==
    /\ \A i, j \in 1..Len(trace) :
          i < j => /\ StrategyRank(trace[i].s) < StrategyRank(trace[j].s)
                   /\ trace[i].out = <<>>
    /\ proc # "none" => \A i \in 1..Len(trace) : trace[i].out = <<>>
    /\ (pc = "done" /\ \E i \in 1..Len(trace) : trace[i].out # <<>>)
          => containers = trace[Len(trace)].out

\* a fallback label lookup ran after an empty one, found a container and ended the chain
C1_Witness ==
    /\ pc = "done"
    /\ op = "list"
    /\ Len(trace) >= 2
    /\ trace[Len(trace)].s \in {"alt", "lower"}
    /\ trace[Len(trace)].out # <<>>
    /\ containers = trace[Len(trace)].out

\* C2: an operation called with an already-expired context waits on no
\* subprocess.
C2_ExpiredCallNeverWaits == calledExpired => proc = "none"

\* C3: when the tool cannot be started or exits non-zero, ListComposeProjects
\* returns no error and the candidates of the filesystem scan.
C3_ToolFailureIsNoError ==
    (op = "projects" /\ pc = "done" /\ lsOutcome.err # "none")
        => /\ err = "none"
           /\ Range(uniqueProjects) = Range(tryExtractProjectsViaConfig(fsFiles))

\* C4: in every inventory returned by ListComposeProjects each name is
\* non-empty and no two projects have the same name.
C4_NamesNonEmptyUnique ==
    (op = "projects" /\ Returned)
        => /\ \A i \in 1..Len(uniqueProjects) : uniqueProjects[i].Name # Empty
           /\ \A i, j \in 1..Len(uniqueProjects) :
                 i # j => uniqueProjects[i].Name # uniqueProjects[j].Name

\* C5: deduplication is idempotent: deduplicating the returned inventory
\* changes nothing, the inventory never holds two entries with equal name and
\* path.
C5_DedupIdempotent ==
    (op = "projects" /\ Returned)
        => /\ Deduplicate(pathEnv, uniqueProjects) = uniqueProjects
           /\ \A i, j \in 1..Len(uniqueProjects) :
                 i # j => ProjectKey(uniqueProjects[i]) # ProjectKey(uniqueProjects[j])

\* the non-empty paths the candidates of a name carry
PathsOf(ps, name) == {ps[i].Path : i \in {k \in 1..Len(ps) : ps[k].Name = name}} \ {Empty}

\* C6: when candidates of one name come with an empty and with a non-empty
\* path, every entry of that name in the inventory carries the non-empty path
\* of a candidate.
C6_NonEmptyPathWins ==
    (op = "projects" /\ Returned)
        => \A i \in 1..Len(projects) :
              (projects[i].Path = Empty /\ PathsOf(projects, projects[i].Name) # {})
                  => \A k \in 1..Len(uniqueProjects) :
                        uniqueProjects[k].Name = projects[i].Name
                            => uniqueProjects[k].Path \in PathsOf(projects, projects[i].Name)

InInventory(name, path) ==
    \E k \in 1..Len(uniqueProjects) :
        uniqueProjects[k].Name = name /\ uniqueProjects[k].Path = path

\* C7 as claimed: a filesystem candidate whose name is a tool-listed project's
\* name and whose path differs from the paths listed for it is in the inventory.
C7_SameNameOtherPathKept ==
    (op = "projects" /\ Returned)
        => \A i \in 1..Len(configProjects) :
              (/\ \E k \in 1..Len(listed) : listed[k].Name = configProjects[i].Name
               /\ \A k \in 1..Len(listed) :
                     listed[k].Name = configProjects[i].Name
                         => listed[k].Path # configProjects[i].Path)
                  => InInventory(configProjects[i].Name, configProjects[i].Path)

\* candidate i of the filesystem scan has the name of a tool-listed project or
\* of an earlier candidate
NameTaken(i) ==
    \/ \E k \in 1..Len(listed) : listed[k].Name = configProjects[i].Name
    \/ \E k \in 1..(i - 1) : configProjects[k].Name = configProjects[i].Name

\* C7 as amended: the final step treats two entries of the merged list as
\* duplicates exactly when name and path are both equal; a filesystem candidate
\* is merged only when no project of its name is already in the list, so one
\* whose name is taken adds no entry whatever its path (an entry of its name
\* and path then comes from a listed project or an earlier candidate), and one
\* whose name is free is kept.
C7_NameFilterThenKeyDedup ==
    (op = "projects" /\ Returned)
        => /\ Len(uniqueProjects) = Cardinality({ProjectKey(projects[i]) : i \in 1..Len(projects)})
           /\ \A i \in 1..Len(configProjects) :
                 IF NameTaken(i)
                 THEN InInventory(configProjects[i].Name, configProjects[i].Path)
                        => \/ \E k \in 1..Len(listed) :
                                 /\ listed[k].Name = configProjects[i].Name
                                 /\ listed[k].Path \in {configProjects[i].Path, Empty}
                           \/ \E k \in 1..(i - 1) :
                                 /\ configProjects[k].Name = configProjects[i].Name
                                 /\ configProjects[k].Path = configProjects[i].Path
                 ELSE InInventory(configProjects[i].Name, configProjects[i].Path)

\* the tool lists a project, the scan finds a declaration of the same name
\* elsewhere, and the inventory holds only the tool's
C7_Witness ==
    /\ op = "projects"
    /\ Returned
    /\ \E i \in 1..Len(configProjects) :
          /\ \E k \in 1..Len(listed) :
                listed[k].Name = configProjects[i].Name /\ listed[k].Path = pX
          /\ ~InInventory(configProjects[i].Name, configProjects[i].Path)
          /\ InInventory(configProjects[i].Name, pX)

\* the path the lookups give a project that has none
LookedUpPath(name) ==
    IF WorkingDir(pathEnv, name) # Empty THEN WorkingDir(pathEnv, name)
    ELSE IF VerbosePath(pathEnv, name) # Empty THEN VerbosePath(pathEnv, name)
    ELSE Dot

\* C8: every project of an inventory returned without error has a non-empty
\* path; one that came without a path has the working directory of the
\* per-project config, else the third column of the first line of the verbose
\* listing that has the name and a third column, else ".".
C8_PathNeverEmpty ==
    (op = "projects" /\ Returned)
        => /\ \A k \in 1..Len(uniqueProjects) : uniqueProjects[k].Path # Empty
           /\ \A i \in 1..Len(projects) :
                 projects[i].Path = Empty
                     => InInventory(projects[i].Name, LookedUpPath(projects[i].Name))

\* a project listed without a path got the column of the verbose listing, another "."
C8_Witness ==
    /\ op = "projects"
    /\ Returned
    /\ \E i \in 1..Len(projects) :
          /\ projects[i].Path = Empty
          /\ WorkingDir(pathEnv, projects[i].Name) = Empty
          /\ VerbosePath(pathEnv, projects[i].Name) = <<"/", "v">>
          /\ InInventory(projects[i].Name, <<"/", "v">>)

\* C9: the list returned by ListComposeContainers and FetchComposeContainers
\* never holds two entries with the same identifier.
C9_NoDuplicateIDs ==
    pc = "done"
        => \A i, j \in 1..Len(containers) : i # j => containers[i].ID # containers[j].ID

\* the container's name spells the project with dashes, or with underscores
SpelledWith(cont, name, old, new) ==
    Contains(ToLower(ContainerName(cont)), ReplaceAll(ToLower(name), old, new))

\* C10: the name pass of FetchComposeContainers selects every container whose
\* name spells the project with dashes or with underscores, whichever of the
\* two the supplied project name uses, whatever its labels.
C10_DashUnderscoreSymmetric ==
    (op = "fetch" /\ Len(trace) >= 1)
        => \A i \in 1..Len(runtime) :
              (\/ SpelledWith(runtime[i], projectName, <<"_">>, <<"-">>)
               \/ SpelledWith(runtime[i], projectName, <<"-">>, <<"_">>))
                  => \E k \in 1..Len(trace[1].out) :
                        trace[1].out[k].ID = ShortID(runtime[i].ID)

\* project my_app, container my-app-web-1 without labels: selected
C10_Witness ==
    /\ op = "fetch"
    /\ projectName = nMyUApp
    /\ Len(trace) >= 1
    /\ \E i \in 1..Len(runtime) :
          /\ ContainerName(runtime[i]) = <<"m", "y", "-", "a", "p", "p", "-", "w", "e", "b", "-", "1">>
          /\ runtime[i].Labels = {}
          /\ \E k \in 1..Len(trace[1].out) : trace[1].out[k].ID = ShortID(runtime[i].ID)

\* C11 as claimed: in ListComposeContainers, when the lookup with the name as
\* given finds nothing, the alternate-spelling pass finds the containers whose
\* project label is the name with its dashes replaced by underscores.
C11_DashFindsUnderscoreLabel ==
    (op = "list" /\ pc = "lcc_lower" /\ ctx = "live" /\ trace[1].out = <<>>)
        => \A i \in 1..Len(runtime) :
              <<keyProject, ReplaceAll(projectName, <<"-">>, <<"_">>)>> \in runtime[i].Labels
                  => \E k \in 1..Len(containers) : containers[k].ID = ShortID(runtime[i].ID)

\* the runtime without its i-th container
Without(rt, i) == SubSeq(rt, 1, i - 1) \o SubSeq(rt, i + 1, Len(rt))

\* C12: in the first pass of FetchComposeContainers a container whose
\* inspection fails (and whose name does not match) is left out, the other
\* containers are selected exactly as if it were not in the runtime, and no
\* error is returned.
C12_InspectFailureSkipsOne ==
    (op = "fetch" /\ pc = "fetch_cmd" /\ ctx = "live")
        => /\ err = "none"
           /\ \A i \in 1..Len(runtime) :
                 (~runtime[i].inspectOk /\ ~FirstPassSelects(ctx, runtime[i], projectName))
                     => /\ \A k \in 1..Len(containers) :
                              containers[k].ID # ShortID(runtime[i].ID)
                        /\ containers = FirstPass(ctx, Without(runtime, i), projectName)

\* the inspection of the first container failed, the second one was selected by
\* its project label
C12_Witness ==
    /\ op = "fetch"
    /\ pc = "fetch_cmd"
    /\ ctx = "live"
    /\ err = "none"
    /\ projectName = nMyDApp
    /\ Len(runtime) = 2
    /\ ~runtime[1].inspectOk
    /\ ~FirstPassSelects(ctx, runtime[1], projectName)
    /\ runtime[2].ID = idC
    /\ Len(containers) = 1
    /\ containers[1].ID = ShortID(idC)

\* C13: every container ListComposeContainers returns was reported by the
\* runtime or by the tool (it is in the output of a strategy that ran); when
\* every strategy found nothing the result is empty.
C13_NoSyntheticRecords ==
    (op = "list" /\ Returned)
        => \A k \in 1..Len(containers) :
              \E i \in 1..Len(trace) :
                 \E j \in 1..Len(trace[i].out) : containers[k] = trace[i].out[j]

\* C20 as claimed: when the tool prints one JSON object with a non-empty
\* identity instead of an array, ListComposeProjects lists exactly the project
\* of that object, and getContainersByComposeCommand starts no further command
\* and returns exactly the record built from that object.
C20_SingleObjectIsOneRecord ==
    /\ (op = "projects" /\ lsOutcome.kind = "object" /\ lsOutcome.name # Empty)
          => (Len(listed) = 1 /\ listed[1].Name = lsOutcome.name)
    /\ (op = "list" /\ psOutcome.kind = "object" /\ psOutcome.recs[1].ID # Empty)
          => /\ proc = "none"
             /\ trace[Len(trace)] = Ran("tool", PsJsonInfos(psOutcome.recs))

\* ListComposeServices found the file and read it
DeclarationRead == op = "services" /\ composePath # Empty /\ projectPath.readOk

ToolInvoked ==
    \/ proc = "compose config services"
    \/ \E i \in 1..Len(svcTrace) : svcTrace[i].s \in {"tool", "tool failed"}

\* C14 as claimed: when the bytes of the declaration cannot be parsed,
\* ListComposeServices invokes the tool's service list and returns without the
\* parse error.
C14_ParseFailureFallsBack ==
    (DeclarationRead /\ pc = "done" /\ UnmarshalFails(composeContent))
        => (err = "none" /\ ToolInvoked)

\* the non-empty lines of a text, trimmed
TrimmedLines(text) ==
    LET lines == Split(text, NL)
        full == SelectSeq(lines, LAMBDA l : TrimSpace(l) # Empty)
    IN  [k \in 1..Len(full) |-> TrimSpace(full[k])]

\* C15 as claimed: the service-listing subcommand is invoked when parsing
\* yielded no service and never when it yielded one; when it succeeds the
\* result is one service per non-empty output line, named by the trimmed line,
\* without image and ports.
C15_ToolFallbackOnZero ==
    op = "services"
        => /\ ToolInvoked => svcTrace[1] = Ran("parse", <<>>)
           /\ (Len(svcTrace) >= 1 /\ svcTrace[1] = Ran("parse", <<>>)) => ToolInvoked
           /\ (pc = "done" /\ Len(svcTrace) >= 2 /\ svcTrace[2].s = "tool")
                 => LET names == TrimmedLines(svcTrace[2].out)
                    IN  /\ Len(services) = Len(names)
                        /\ \A k \in 1..Len(names) :
                              services[k] = ComposeServiceInfo(names[k], Empty, <<>>)

\* C16: an existing, readable and empty declaration file makes
\* ListComposeServices return the error "compose file is empty" and no
\* service, without parsing it and without starting the tool.
C16_EmptyFileIsError ==
    (DeclarationRead /\ composeContent.bytes = "empty")
        => /\ pc = "done"
           /\ err = "compose file is empty"
           /\ services = <<>>
           /\ svcTrace = <<>>
           /\ proc = "none"

\* the empty file was found in the directory, and the call ended with the error
C16_Witness ==
    /\ op = "services"
    /\ pc = "done"
    /\ projectPath.kind = "dir"
    /\ composePath = pathDir \o <<"/">> \o composeYaml
    /\ composeContent.bytes = "empty"
    /\ err = "compose file is empty"
    /\ services = <<>>

\* the string items of a list of the declaration, in its order
StringsOf(v) ==
    LET strs == SelectSeq(v.items, LAMBDA x : x.t = "string")
    IN  [k \in 1..Len(strs) |-> strs[k].s]

\* ListComposeServices read a declaration whose services key is a mapping of
\* mappings, and returned
MappingsReturned ==
    /\ DeclarationRead
    /\ pc = "done"
    /\ HasServicesMap(composeContent)
    /\ \A i \in 1..Len(composeContent.entries) : composeContent.entries[i].isMap

\* C17 as claimed: for a declaration whose entries under services are all
\* mappings, the result has exactly one record per declared service, with its
\* name, its image scalar (empty if absent) and the string items of its ports
\* list in order.
C17_OneRecordPerDeclared ==
    MappingsReturned
        => /\ err = "none"
           /\ Len(services) = Len(composeContent.entries)
           /\ \A i \in 1..Len(composeContent.entries) :
                 LET e == composeContent.entries[i]
                 IN  \E k \in 1..Len(services) :
                        services[k] = ComposeServiceInfo(e.name, e.image.s, StringsOf(e.ports))

\* C17 as amended: with at least one entry under services, all of them
\* mappings, the result has exactly one record per declared service, in some
\* order, with its name, its image when that is a string (else empty) and the
\* string items of its ports list in order; the two-service example gives web
\* (nginx:latest, 8080:80) and db (postgres:14, no ports).
C17_OneRecordPerDeclaredNonEmpty ==
    (MappingsReturned /\ Len(composeContent.entries) >= 1)
        => /\ err = "none"
           /\ Len(services) = Len(composeContent.entries)
           /\ \A i \in 1..Len(composeContent.entries) :
                 LET e == composeContent.entries[i]
                 IN  \E k \in 1..Len(services) :
                        services[k] = ComposeServiceInfo(e.name,
                                          IF e.image.t = "string" THEN e.image.s ELSE Empty,
                                          StringsOf(e.ports))
           /\ composeContent.entries = <<entryWeb, entryDb>>
                 => Range(services) = {ComposeServiceInfo(nWeb, imgNginx, <<port8080>>),
                                       ComposeServiceInfo(nDb, imgPostgres, <<>>)}

\* the two-service example, returned with db first, and no subprocess started
C17_Witness ==
    /\ MappingsReturned
    /\ err = "none"
    /\ composeContent.entries = <<entryWeb, entryDb>>
    /\ services = <<ComposeServiceInfo(nDb, imgPostgres, <<>>),
                    ComposeServiceInfo(nWeb, imgNginx, <<port8080>>)>>
    /\ svcTrace = <<Ran("parse", services)>>

\* ComposeInspect built the service list from a file it read
ScannedFile ==
    op = "inspect" /\ pc = "done" /\ composeFileContent # Empty /\ composeServices = <<>>

\* C18 as claimed: for a file declaring N services under the top-level
\* services key, with whatever indentation width, the scanner of
\* ComposeInspect yields N records, named as declared (and so none named
\* under another top-level key).
C18_ScannerFindsDeclaredNames ==
    ScannedFile
        => /\ Len(tmpComposeServices) = Len(declaration.entries)
           /\ Scanned = {declaration.entries[i].name : i \in 1..Len(declaration.entries)}

\* C19 as claimed: the ports recorded for a service the scanner found are the
\* items of that service's ports list, in order, and nothing else.
C19_PortsAreThePortsList ==
    ScannedFile
        => \A k \in 1..Len(tmpComposeServices) :
              \A i \in 1..Len(declaration.entries) :
                 declaration.entries[i].name = tmpComposeServices[k].Name
                     => tmpComposeServices[k].Ports = declaration.entries[i].ports

\* getContainersByComposeCommand returned what the last command printed
ToolReturned ==
    op = "list" /\ pc = "lcc_test" /\ Len(trace) >= 1 /\ trace[Len(trace)].s = "tool"

\* C21: for a JSON array printed by `ps --format json`,
\* getContainersByComposeCommand returns one record per element with a
\* non-empty ID, in order: the identifier cut to 12 characters, the name
\* "Name (Service)" when there is a service and Name otherwise.
C21_OneRecordPerIdentifiedElement ==
    (ToolReturned /\ psOutcome.kind = "array")
        => LET kept == SelectSeq(psOutcome.recs, LAMBDA r : r.hasID /\ r.ID # Empty)
               out == trace[Len(trace)].out
           IN  /\ Len(out) = Len(kept)
               /\ \A k \in 1..Len(kept) :
                     /\ out[k].ID = SubSeq(kept[k].ID, 1, IF Len(kept[k].ID) < 12 THEN Len(kept[k].ID) ELSE 12)
                     /\ out[k].Name = IF kept[k].Service = Empty THEN kept[k].Name
                                      ELSE kept[k].Name \o <<" ", "(">> \o kept[k].Service \o <<")">>

\* an element without ID, then one with a 14-character ID and a service
C21_Witness ==
    /\ ToolReturned
    /\ psOutcome.kind = "array"
    /\ Len(psOutcome.recs) = 2
    /\ ~psOutcome.recs[1].hasID
    /\ psOutcome.recs[2].ID = idA
    /\ containers = <<ContainerInfo(SubSeq(idA, 1, 12),
                        <<"m", "y", "-", "a", "p", "p", "-", "w", "e", "b", "-", "1", " ", "(", "w", "e", "b", ")">>)>>

\* a line with a column name the scanners know
NamesAColumn(line) ==
    Contains(line, <<"N", "A", "M", "E">>) \/ Contains(line, <<"n", "a", "m", "e">>)

\* C22 as claimed: a first line of the tool's text that names no column and is
\* a data row gives a record: a project in parseComposeOutputManually, a
\* container in parseComposeTextOutput.
C22_FirstDataRowIsParsed ==
    /\ (op = "projects" /\ lsOutcome.kind = "text" /\ ~NamesAColumn(lsOutcome.first)
            /\ ~Contains(lsOutcome.first, keyName) /\ Len(Fields(lsOutcome.first)) >= 2)
          => \E k \in 1..Len(listed) : listed[k].Name = Fields(lsOutcome.first)[1]
    /\ (ToolReturned /\ psOutcome.kind = "text" /\ ~NamesAColumn(psOutcome.first)
            /\ Len(Fields(psOutcome.first)) >= 3)
          => \E k \in 1..Len(containers) : containers[k].ID = ShortID(Fields(psOutcome.first)[1])

(***************************************************************************)
(* The interface: what Update issues and where the view can be.            *)
(***************************************************************************)
KeyHandled(binding) == handled.type = "tea.KeyMsg" /\ Matches(handled.key, binding)

\* the list fetch of each tab, by name
ListFetchName ==
    [t \in ContainersTab..ComposeTab |->
        <<"fetchContainers", "fetchImages", "fetchVolumes", "fetchNetworks",
          "fetchComposeProjects">>[t + 1]]

IssuedNames == [i \in 1..Len(issued) |-> issued[i].name]

\* C23: in list mode a NextTab or PrevTab key issues exactly the list fetch of
\* the tab it selects; a successful action result that names its action
\* issues the list fetch of the current tab; a failed one issues nothing.
\* (Neither a tab key nor an action result changes the mode, and an action
\* result does not change the tab, so the state after the step tells both.)
C23_FetchOnSwitchAndAction ==
    /\ (KeyHandled(DefaultFullKeyMap.NextTab) \/ KeyHandled(DefaultFullKeyMap.PrevTab))
       /\ m.currentMode = ListMode
       => IssuedNames = <<ListFetchName[m.currentTab]>>
    /\ handled.type = "fullActionResultMsg" /\ handled.success /\ handled.action # ""
       => IssuedNames = <<ListFetchName[m.currentTab]>>
    /\ handled.type = "fullActionResultMsg" /\ ~handled.success
       => issued = <<>>

\* a compose action has succeeded on the Compose tab and the projects are
\* fetched again
C23_Witness ==
    /\ handled.type = "fullActionResultMsg" /\ handled.success /\ handled.action # ""
    /\ m.currentTab = ComposeTab
    /\ IssuedNames = <<"fetchComposeProjects">>

\* C24: when the listener delivers a DockerEventMsg, Update issues what
\* HandleDockerEvent asks for: the list fetch of the event's resource type,
\* and a stats fetch in monitor mode when the event is about the monitored
\* container.
C24_EventIssuesFetch ==
    handled.type = "DockerEventMsg"
        => issued = HandleDockerEvent(m, [eventType |-> handled.eventType, id |-> handled.id])

\* C25: in list mode on the Containers tab with a container selected, the
\* key d issues the remove action for it.
C25_DRemovesContainer ==
    /\ handled.type = "tea.KeyMsg" /\ handled.key = "d"
    /\ m.currentMode = ListMode /\ m.currentTab = ContainersTab /\ m.selectedID # Empty
    => /\ Len(issued) = 1
       /\ issued[1].name = "containerAction"
       /\ issued[1].action = "remove"
       /\ issued[1].id = m.selectedID

C27_MonitorHasContainer ==
    m.currentMode = MonitorMode => m.currentTab = ContainersTab /\ m.selectedID # Empty

\* the stats timer has fired while a container is monitored
C27_Witness ==
    /\ m.currentMode = MonitorMode
    /\ handled.type = "tickMsg"
    /\ IssuedNames = <<"fetchStats", "startStatsRefresh">>

\* C28: Esc in inspect, logs or monitor mode returns to list mode and leaves
\* the tab and the selection as they were; Esc in list mode changes neither
\* the mode nor the tab.
C28_EscReturnsToList ==
    [][handled'.type = "tea.KeyMsg" /\ Matches(handled'.key, DefaultFullKeyMap.Back)
       => /\ m'.currentMode = ListMode
          /\ m'.currentTab = m.currentTab
          /\ m.currentMode # ListMode => Selection(m') = Selection(m)]_vars

\* Esc has left the view of a compose project: only Inspect on the Compose
\* tab awaits the compose messages, and it leaves list mode
C28_Witness ==
    /\ KeyHandled(DefaultFullKeyMap.Back)
    /\ m.currentMode = ListMode /\ m.currentTab = ComposeTab
    /\ m.selectedPath # Empty
    /\ awaited = ComposeMsgs

TabKeyNext == handled'.type = "tea.KeyMsg" /\ Matches(handled'.key, DefaultFullKeyMap.NextTab)
TabKeyPrev == handled'.type = "tea.KeyMsg" /\ Matches(handled'.key, DefaultFullKeyMap.PrevTab)

\* C29: in list mode NextTab selects (tab + 1) mod 5 and PrevTab selects
\* (tab - 1) mod 5; in any other mode the tab keys leave the tab alone; the
\* tab is always one of the five, never LogsTab.
C29_TabsCycle ==
    /\ [](m.currentTab \in ContainersTab..ComposeTab)
    /\ [][/\ TabKeyNext /\ m.currentMode = ListMode
             => m'.currentTab = (m.currentTab + 1) % 5
          /\ TabKeyPrev /\ m.currentMode = ListMode
             => m'.currentTab = (m.currentTab - 1) % 5
          /\ (TabKeyNext \/ TabKeyPrev) /\ m.currentMode # ListMode
             => m'.currentTab = m.currentTab]_vars

\* NextTab has wrapped around: a fetch of the containers issued by a tab key
\* means the key was taken in list mode and left the Compose tab
C29_Witness ==
    /\ KeyHandled(DefaultFullKeyMap.NextTab)
    /\ m.currentTab = ContainersTab
    /\ IssuedNames = <<"fetchContainers">>

\* C30: after Inspect in list mode on the Compose tab with a selected project
\* that has a path, the list-services and list-containers calls run and the
\* model receives fullComposeServicesMsg and fullComposeContainersMsg.  Once
\* every call has returned, nothing can bring them any more, so by then both
\* have been received.
C30_ComposeMessagesArrive == Calls(inflight) = 0 => awaited = {}

\* the commands that carry out an action on a resource or a project
ActionNames == {"containerAction", "imageAction", "volumeAction", "networkAction", "composeAction"}

ActionsInFlight == {c \in BagToSet(inflight) : c.name \in ActionNames}

\* C31: the re-inspection that afterActionMsg{inspect} triggers is issued only
\* after the action batched with it has returned, in every interleaving.
C31_ReinspectAfterAction ==
    handled.type = "afterActionMsg" /\ handled.action = "inspect" => ActionsInFlight = {}

\* C32: a failed kill or remove asked for in inspect mode leaves the view as
\* it was: once every message of that key press has been handled, the model
\* is in inspect mode on the same tab with the same selection.
C32_FailedActionKeepsView ==
    origin.state = "failed" /\ Calls(inflight) = 0
        => /\ m.currentMode = InspectMode
           /\ m.currentTab = origin.tab
           /\ Selection(m) = origin.selection

\* the stats timers that have yet to fire
StatsTimers == CopiesIn(startStatsRefresh, inflight)

\* C33: at most one stats-refresh timer is pending at any time, however
\* monitor mode is entered, left with Esc and entered again.
C33_OneStatsTimer == StatsTimers <= 1

\* C34: a tick handled outside monitor mode issues neither a stats fetch nor
\* a timer, so once monitor mode is left for good, eventually no timer is
\* pending and no stats fetch is issued any more; a tick handled in monitor
\* mode issues one stats fetch and one timer.  (A tick does not change the
\* mode.)
C34_TicksStopOutsideMonitor ==
    /\ [](handled.type = "tickMsg" /\ m.currentMode # MonitorMode => issued = <<>>)
    /\ [](handled.type = "tickMsg" /\ m.currentMode = MonitorMode
            => IssuedNames = <<"fetchStats", "startStatsRefresh">>)
    /\ <>[](m.currentMode # MonitorMode)
         => <>[](StatsTimers = 0 /\ \A i \in 1..Len(issued) : issued[i].name # "fetchStats")

\* the timer of a monitor session that is over has fired, to no effect
C34_Witness ==
    /\ handled.type = "tickMsg"
    /\ m.currentMode = ListMode
    /\ issued = <<>>
    /\ StatsTimers = 0

\* the connection checks that are running or scheduled
Checks == CopiesIn(checkDockerConnection, inflight) + CopiesIn(startConnectionCheck, inflight)

ConnectionHandled == handled.type = "dockerConnectionMsg"

\* C35: a failed connection check leaves dockerConnected false and schedules
\* exactly one re-check, which runs when its time comes, so while the daemon
\* is out of reach a check is always running or scheduled; a check that
\* succeeds sets dockerConnected and schedules nothing more.
C35_RecheckUntilConnected ==
    /\ ConnectionHandled /\ ~handled.connected
       => ~m.dockerConnected /\ IssuedNames = <<"startConnectionCheck">>
    /\ handled.type = "connectionCheckTickMsg" => IssuedNames = <<"checkDockerConnection">>
    /\ ~m.dockerConnected => Checks >= 1
    /\ ConnectionHandled /\ handled.connected
       => m.dockerConnected /\ issued = <<>> /\ Checks = 0

\* the daemon has been out of reach, was checked again and has answered
C35_Witness ==
    /\ ConnectionHandled /\ handled.connected
    /\ m.dockerConnected
    /\ Checks = 0
    /\ m.containers = <<>> /\ m.tables[ContainersTab].rows = 0 /\ m.images # <<>>

\* C36: the detail viewport holds content of the current mode only: stats in
\* monitor mode, logs in logs mode, an inspection in inspect mode.
C36_ViewportOfMode ==
    /\ m.viewport = "stats" => m.currentMode = MonitorMode
    /\ m.viewport = "logs" => m.currentMode = LogsMode
    /\ m.viewport \in {"inspect", "compose"} => m.currentMode = InspectMode

\* the external-tool pass of FetchComposeContainers has just ended, having
\* read a JSON array
FetchToolReturned ==
    /\ op = "fetch" /\ pc = "fetch_deep"
    /\ Len(trace) >= 1 /\ trace[Len(trace)].s = "tool"
    /\ psOutcome.kind = "array"

\* the record's identifier is a prefix of the container's, or the two agree
\* on their first 12 characters
IdentifiesByPrefix(rec, cont) ==
    /\ rec.hasID
    /\ rec.ID # Empty
    /\ \/ /\ Len(rec.ID) <= Len(cont.ID)
          /\ SubSeq(cont.ID, 1, Len(rec.ID)) = rec.ID
       \/ /\ Len(rec.ID) >= ShortIDLen /\ Len(cont.ID) >= ShortIDLen
          /\ SubSeq(rec.ID, 1, ShortIDLen) = SubSeq(cont.ID, 1, ShortIDLen)

\* C37: in the external-tool pass of FetchComposeContainers every container
\* selected is identified by a record of the tool whose identifier is
\* non-empty; a record with an empty identifier selects none.
C37_ToolSelectsByNonEmptyPrefix ==
    FetchToolReturned
        => \A k \in 1..Len(containers) :
              \E i \in 1..Len(psOutcome.recs) : IdentifiesByPrefix(psOutcome.recs[i], containers[k])

====
